---- MODULE Spec2Model ----
(***************************************************************************)
(* A model of the currency package: the Amount type (amount.go) over the   *)
(* apd decimal it wraps, and the currency registry (currency.go,           *)
(* register.go).                                                           *)
(*                                                                         *)
(* Strings are sequences of one-character strings.  A decimal coefficient  *)
(* is an arbitrary-precision natural number, kept as its sequence of       *)
(* decimal digits, most significant first, without leading zeros (zero is  *)
(* <<0>>): the 19/39-digit working precisions and the 2^31 context         *)
(* threshold of the code are therefore modelled at their real sizes.       *)
(***************************************************************************)
EXTENDS Integers, Sequences, FiniteSets, TLC

\* ------------------------------------------------------------------------
\* Arbitrary-precision naturals (math/big as used through apd.BigInt)
\* ------------------------------------------------------------------------

Zeros(k) == [i \in 1..k |-> 0]

SetMin(S) == CHOOSE x \in S : \A y \in S : x <= y

\* Strip leading zeros.
Norm(s) ==
  LET nz == {i \in 1..Len(s) : s[i] # 0}
  IN IF nz = {} THEN <<0>> ELSE SubSeq(s, SetMin(nz), Len(s))

BigIsZero(x) == x = <<0>>

\* -1, 0, +1 as x < y, x = y, x > y (both normalized).
BigCmp(x, y) ==
  IF Len(x) < Len(y) THEN -1
  ELSE IF Len(x) > Len(y) THEN 1
  ELSE LET df == {i \in 1..Len(x) : x[i] # y[i]}
       IN IF df = {} THEN 0
          ELSE IF x[SetMin(df)] < y[SetMin(df)] THEN -1 ELSE 1

PadTo(x, n) == Zeros(n - Len(x)) \o x

\* The digits are produced from the last one on; acc holds those done.
RECURSIVE AddRec(_, _, _, _)
AddRec(px, py, carry, acc) ==
  IF Len(acc) = Len(px) THEN acc
  ELSE LET i == Len(px) - Len(acc)
           s == px[i] + py[i] + carry
       IN AddRec(px, py, s \div 10, <<s % 10>> \o acc)

BigAdd(x, y) ==
  LET n == (IF Len(x) > Len(y) THEN Len(x) ELSE Len(y)) + 1
  IN Norm(AddRec(PadTo(x, n), PadTo(y, n), 0, <<>>))

RECURSIVE SubRec(_, _, _, _)
SubRec(px, py, borrow, acc) ==
  IF Len(acc) = Len(px) THEN acc
  ELSE LET i == Len(px) - Len(acc)
           s == px[i] - py[i] - borrow
       IN IF s < 0 THEN SubRec(px, py, 1, <<s + 10>> \o acc)
                   ELSE SubRec(px, py, 0, <<s>> \o acc)

\* x - y for x >= y.
BigSub(x, y) == Norm(SubRec(x, PadTo(y, Len(x)), 0, <<>>))

RECURSIVE ConvSum(_, _, _, _)
\* Sum of x[j] * y[k + 1 - j] over the j from i to hi.
ConvSum(x, y, k, i) ==
  LET hi == IF k < Len(x) THEN k ELSE Len(x)
  IN IF i > hi THEN 0 ELSE x[i] * y[k + 1 - i] + ConvSum(x, y, k, i + 1)

RECURSIVE CarryRec(_, _, _)
CarryRec(raw, carry, acc) ==
  IF Len(acc) = Len(raw) THEN acc
  ELSE LET s == raw[Len(raw) - Len(acc)] + carry
       IN CarryRec(raw, s \div 10, <<s % 10>> \o acc)

\* Schoolbook product: the column sums, then the carries (a column sum of
\* two numbers of up to 999 digits is below 10^5: five more columns hold
\* every carry).
BigMul(x, y) ==
  LET n == Len(x) + Len(y) - 1
      raw == [k \in 1..(n + 5) |-> IF k <= 5 THEN 0
                                ELSE ConvSum(x, y, k - 5,
                                             IF k - 5 > Len(y) THEN k - 4 - Len(y) ELSE 1)]
  IN Norm(CarryRec(raw, 0, <<>>))

\* x * 10^k.
BigShift(x, k) == IF BigIsZero(x) THEN x ELSE x \o Zeros(k)

BigIsOdd(x) == x[Len(x)] % 2 = 1

\* How many times y goes into r (y > 0, r < 10 * y), and what is left.
RECURSIVE QuoDigit(_, _, _)
QuoDigit(r, y, q) ==
  IF BigCmp(r, y) < 0 THEN [q |-> q, r |-> r] ELSE QuoDigit(BigSub(r, y), y, q + 1)

\* Long division, one digit of x at a time; acc holds the quotient digits done.
RECURSIVE DivRec(_, _, _, _)
DivRec(x, y, rem, acc) ==
  IF Len(acc) = Len(x) THEN [q |-> Norm(acc), r |-> rem]
  ELSE LET d == QuoDigit(Norm(rem \o <<x[Len(acc) + 1]>>), y, 0)
       IN DivRec(x, y, d.r, acc \o <<d.q>>)

\* Quotient and remainder of x by y > 0.
BigQuoRem(x, y) == DivRec(x, y, <<0>>, <<>>)

\* A small non-negative integer as a digit sequence.
RECURSIVE NatDigits(_)
NatDigits(n) == IF n < 10 THEN <<n>> ELSE NatDigits(n \div 10) \o <<n % 10>>

\* Coeff.BitLen() > 31, that is the coefficient is at least 2^31.
TwoPow31 == <<2, 1, 4, 7, 4, 8, 3, 6, 4, 8>>
BitLenOver31(c) == BigCmp(c, TwoPow31) >= 0

\* ------------------------------------------------------------------------
\* Characters
\* ------------------------------------------------------------------------

DigitChars == <<"0", "1", "2", "3", "4", "5", "6", "7", "8", "9">>
UpperChars == <<"A", "B", "C", "D", "E", "F", "G", "H", "I", "J", "K", "L", "M",
                "N", "O", "P", "Q", "R", "S", "T", "U", "V", "W", "X", "Y", "Z">>
LowerChars == <<"a", "b", "c", "d", "e", "f", "g", "h", "i", "j", "k", "l", "m",
                "n", "o", "p", "q", "r", "s", "t", "u", "v", "w", "x", "y", "z">>

IsDigitChar(c) == \E i \in 1..10 : DigitChars[i] = c
DigitOf(c) == (CHOOSE i \in 1..10 : DigitChars[i] = c) - 1
ToLower(c) ==
  IF \E i \in 1..26 : UpperChars[i] = c
  THEN LowerChars[CHOOSE i \in 1..26 : UpperChars[i] = c]
  ELSE c
AllDigits(s) == \A i \in 1..Len(s) : IsDigitChar(s[i])
DigitString(c) == [i \in 1..Len(c) |-> DigitChars[c[i] + 1]]

\* ------------------------------------------------------------------------
\* apd.Decimal: Form, Negative, Coeff, Exponent
\* ------------------------------------------------------------------------

Dec(form, neg, coeff, exp) ==
  [Form |-> form, Negative |-> neg, Coeff |-> coeff, Exponent |-> exp]

\* The zero value apd.Decimal{}.
DecZero == Dec("Finite", FALSE, <<0>>, 0)
decimalNaN == Dec("NaN", FALSE, <<0>>, 0)
decimalInfinity == Dec("Infinite", FALSE, <<0>>, 0)

IsNaNForm(d) == d.Form \in {"NaN", "NaNSignaling"}

\* Decimal.Sign
DecSign(d) ==
  IF d.Form = "Finite" /\ BigIsZero(d.Coeff) THEN 0
  ELSE IF d.Negative THEN -1 ELSE 1

\* Decimal.IsZero
DecIsZero(d) == DecSign(d) = 0

\* strconv.ParseInt of the exponent part: an optional sign and digits.
ExpDigitsOk(s) ==
  LET t == IF Len(s) > 0 /\ s[1] \in {"-", "+"} THEN Tail(s) ELSE s
  IN Len(t) > 0 /\ AllDigits(t)

RECURSIVE DigitsValue(_, _)
DigitsValue(s, acc) ==
  IF Len(s) = 0 THEN acc ELSE DigitsValue(Tail(s), acc * 10 + DigitOf(s[1]))

ExpValue(s) ==
  IF Len(s) > 0 /\ s[1] = "-" THEN 0 - DigitsValue(Tail(s), 0)
  ELSE IF Len(s) > 0 /\ s[1] = "+" THEN DigitsValue(Tail(s), 0)
  ELSE DigitsValue(s, 0)

\* The numeric branch of Decimal.SetString: [mantissa][E exponent], the
\* mantissa being digits with at most one decimal point.
SetNumeric(neg, body) ==
  LET es == {i \in 1..Len(body) : body[i] \in {"e", "E"}}
      hasE == es # {}
      mant == IF hasE THEN SubSeq(body, 1, SetMin(es) - 1) ELSE body
      expS == IF hasE THEN SubSeq(body, SetMin(es) + 1, Len(body)) ELSE <<>>
      ds == {i \in 1..Len(mant) : mant[i] = "."}
      hasDot == ds # {}
      frac == IF hasDot THEN Len(mant) - SetMin(ds) ELSE 0
      digs == IF hasDot
              THEN SubSeq(mant, 1, SetMin(ds) - 1) \o SubSeq(mant, SetMin(ds) + 1, Len(mant))
              ELSE mant
  IN IF hasE /\ ~ExpDigitsOk(expS) THEN [ok |-> FALSE, d |-> DecZero]
     ELSE IF Len(digs) = 0 \/ ~AllDigits(digs) THEN [ok |-> FALSE, d |-> DecZero]
     ELSE [ok |-> TRUE,
           d |-> Dec("Finite", neg, Norm([i \in 1..Len(digs) |-> DigitOf(digs[i])]),
                     (IF hasE THEN ExpValue(expS) ELSE 0) - frac)]

\* Decimal.SetString under apd.BaseContext (precision 0: the digits are kept
\* as written).  The inputs of the model carry at most one sign and no NaN
\* payload.  ok = FALSE is the parse error.
SetString(s) ==
  LET signed == Len(s) > 0 /\ s[1] \in {"-", "+"}
      neg == Len(s) > 0 /\ s[1] = "-"
      body == IF signed THEN Tail(s) ELSE s
      low == [i \in 1..Len(body) |-> ToLower(body[i])]
  IN IF low \in {<<"i", "n", "f">>, <<"i", "n", "f", "i", "n", "i", "t", "y">>}
     THEN [ok |-> TRUE, d |-> Dec("Infinite", neg, <<0>>, 0)]
     ELSE IF low = <<"n", "a", "n">>
     THEN [ok |-> TRUE, d |-> Dec("NaN", neg, <<0>>, 0)]
     ELSE IF low = <<"s", "n", "a", "n">>
     THEN [ok |-> TRUE, d |-> Dec("NaNSignaling", neg, <<0>>, 0)]
     ELSE SetNumeric(neg, body)

\* Decimal.String: the 'G' format (plain when the exponent is at most 0 and
\* the adjusted exponent at least -6, scientific otherwise).
DecString(d) ==
  LET sign == IF d.Negative THEN <<"-">> ELSE <<>>
      digs == DigitString(d.Coeff)
      n == Len(digs)
      adj == d.Exponent + n - 1
      fr == 0 - d.Exponent
      absAdj == IF adj < 0 THEN 0 - adj ELSE adj
  IN IF d.Form = "Infinite" THEN sign \o <<"I", "n", "f", "i", "n", "i", "t", "y">>
     ELSE IF d.Form = "NaN" THEN sign \o <<"N", "a", "N">>
     ELSE IF d.Form = "NaNSignaling" THEN sign \o <<"s", "N", "a", "N">>
     ELSE IF d.Exponent <= 0 /\ adj >= -6
     THEN IF fr = 0 THEN sign \o digs
          ELSE IF n > fr
          THEN sign \o SubSeq(digs, 1, n - fr) \o <<".">> \o SubSeq(digs, n - fr + 1, n)
          ELSE sign \o <<"0", ".">> \o DigitString(Zeros(fr - n)) \o digs
     ELSE sign \o <<digs[1]>>
          \o (IF n > 1 THEN <<".">> \o SubSeq(digs, 2, n) ELSE <<>>)
          \o <<"E", IF adj < 0 THEN "-" ELSE "+">>
          \o DigitString(NatDigits(absAdj))

\* Decimal.Neg
DecNeg(x) ==
  IF DecIsZero(x) THEN [x EXCEPT !.Negative = FALSE]
  ELSE [x EXCEPT !.Negative = ~x.Negative]

\* Decimal.Cmp.  A NaN is compared like a finite number by its sign, digits
\* and exponent, as the code does.
DecCmp(d, x) ==
  LET ds == DecSign(d)
      xs == DecSign(x)
      gt == IF ds = -1 THEN -1 ELSE 1
      lt == 0 - gt
      dn == Len(d.Coeff) + d.Exponent
      xn == Len(x.Coeff) + x.Exponent
      s == IF d.Exponent < x.Exponent THEN d.Exponent ELSE x.Exponent
      c == BigCmp(BigShift(d.Coeff, d.Exponent - s), BigShift(x.Coeff, x.Exponent - s))
  IN IF ds < xs THEN -1
     ELSE IF ds > xs THEN 1
     ELSE IF ds = 0 /\ xs = 0 THEN 0
     ELSE IF d.Form = "Infinite" THEN (IF x.Form = "Infinite" THEN 0 ELSE gt)
     ELSE IF x.Form = "Infinite" THEN lt
     ELSE IF d.Exponent = x.Exponent
     THEN (IF ds < 0 THEN 0 - BigCmp(d.Coeff, x.Coeff) ELSE BigCmp(d.Coeff, x.Coeff))
     ELSE IF dn < xn THEN lt
     ELSE IF dn > xn THEN gt
     ELSE IF ds < 0 THEN 0 - c ELSE c

\* Decimal.Reduce: trailing zeros of the coefficient moved to the exponent.
DecReduce(x) ==
  IF x.Form # "Finite" THEN x
  ELSE IF BigIsZero(x.Coeff) THEN DecZero
  ELSE LET nz == {i \in 1..Len(x.Coeff) : x.Coeff[i] # 0}
           hi == CHOOSE i \in nz : \A j \in nz : j <= i
       IN [x EXCEPT !.Coeff = SubSeq(x.Coeff, 1, hi),
                    !.Exponent = x.Exponent + (Len(x.Coeff) - hi)]

\* ------------------------------------------------------------------------
\* apd.Context: Precision and Rounding
\* ------------------------------------------------------------------------

RoundingModes == {"RoundHalfUp", "RoundHalfDown", "RoundUp", "RoundDown", "RoundHalfEven"}

\* Rounder.ShouldAddOne: y the digits kept, half the discarded part compared
\* with one half (called only when the discarded part is not zero).
ShouldAddOne(mode, y, half) ==
  CASE mode = "RoundDown" -> FALSE
    [] mode = "RoundHalfUp" -> half >= 0
    [] mode = "RoundHalfEven" -> half > 0 \/ (half = 0 /\ BigIsOdd(y))
    [] mode = "RoundUp" -> TRUE
    [] mode = "RoundHalfDown" -> half > 0

\* Rounder.Round: d rounded to prec significant digits.
RoundDigits(prec, mode, d) ==
  LET nd == Len(d.Coeff)
      diff == nd - prec
      y == IF prec = 0 THEN <<0>> ELSE SubSeq(d.Coeff, 1, prec)
      m == SubSeq(d.Coeff, prec + 1, nd)
      mZero == \A i \in 1..Len(m) : m[i] = 0
      half == IF m[1] > 5 THEN 1
              ELSE IF m[1] < 5 THEN -1
              ELSE IF \A i \in 2..Len(m) : m[i] = 0 THEN 0 ELSE 1
      add == ~mZero /\ ShouldAddOne(mode, y, half)
      y1 == IF add THEN BigAdd(y, <<1>>) ELSE y
      over == Len(y1) > Len(y)
      y2 == IF over THEN SubSeq(y1, 1, Len(y1) - 1) ELSE y1
  IN IF diff <= 0 THEN d
     ELSE [d EXCEPT !.Coeff = y2,
                    !.Exponent = d.Exponent + diff + (IF over THEN 1 ELSE 0)]

\* Context.round: no rounding under precision 0.
CtxRound(c, d) == IF c.Precision = 0 THEN d ELSE RoundDigits(c.Precision, c.Rounding, d)

\* Context.setIfNaN: the first signaling NaN, else the first NaN, quieted.
HasNaN(vals) == \E i \in 1..Len(vals) : IsNaNForm(vals[i])
SetIfNaN(vals) ==
  LET sig == {i \in 1..Len(vals) : vals[i].Form = "NaNSignaling"}
      any == {i \in 1..Len(vals) : IsNaNForm(vals[i])}
      pick == IF sig # {} THEN SetMin(sig) ELSE SetMin(any)
  IN [vals[pick] EXCEPT !.Form = "NaN"]

MinInt(x, y) == IF x < y THEN x ELSE y

\* Context.Add (subtract = FALSE) and Context.Sub (subtract = TRUE).
CtxAdd(c, x, y, subtract) ==
  LET xn == x.Negative
      yn == y.Negative # subtract
      s == MinInt(x.Exponent, y.Exponent)
      a == BigShift(x.Coeff, x.Exponent - s)
      b == BigShift(y.Coeff, y.Exponent - s)
      ab == BigCmp(a, b)
  IN IF HasNaN(<<x, y>>) THEN SetIfNaN(<<x, y>>)
     ELSE IF x.Form = "Infinite" \/ y.Form = "Infinite"
     THEN IF x.Form = "Infinite" /\ y.Form = "Infinite" /\ xn # yn THEN decimalNaN
          ELSE IF x.Form = "Infinite" THEN x
          ELSE [decimalInfinity EXCEPT !.Negative = yn]
     ELSE IF xn = yn THEN CtxRound(c, Dec("Finite", xn, BigAdd(a, b), s))
     ELSE IF ab = 0 THEN Dec("Finite", FALSE, <<0>>, s)
     ELSE IF ab > 0 THEN CtxRound(c, Dec("Finite", xn, BigSub(a, b), s))
     ELSE CtxRound(c, Dec("Finite", ~xn, BigSub(b, a), s))

\* Context.Mul
CtxMul(c, x, y) ==
  LET neg == x.Negative # y.Negative
  IN IF HasNaN(<<x, y>>) THEN SetIfNaN(<<x, y>>)
     ELSE IF x.Form = "Infinite" \/ y.Form = "Infinite"
     THEN IF DecIsZero(x) \/ DecIsZero(y) THEN decimalNaN
          ELSE [decimalInfinity EXCEPT !.Negative = neg]
     ELSE CtxRound(c, Dec("Finite", neg, BigMul(x.Coeff, y.Coeff), x.Exponent + y.Exponent))

\* Context.Quo followed by Decimal.Reduce: the quotient rounded to the
\* context's precision, trailing zeros removed.  The quotient is computed to
\* one digit more than the precision needs, the last digit recording a
\* non-zero remainder.
CtxQuoReduce(c, x, y) ==
  LET neg == x.Negative # y.Negative
      k == c.Precision + Len(y.Coeff)
      qr == BigQuoRem(BigShift(x.Coeff, k), y.Coeff)
      q == Norm(qr.q \o <<IF BigIsZero(qr.r) THEN 0 ELSE 1>>)
  IN IF HasNaN(<<x, y>>) THEN SetIfNaN(<<x, y>>)
     ELSE IF x.Form = "Infinite" /\ y.Form = "Infinite" THEN decimalNaN
     ELSE IF x.Form = "Infinite" THEN [decimalInfinity EXCEPT !.Negative = neg]
     ELSE IF y.Form = "Infinite" THEN DecZero
     ELSE IF BigIsZero(y.Coeff)
     THEN (IF DecIsZero(x) THEN decimalNaN ELSE [decimalInfinity EXCEPT !.Negative = neg])
     ELSE IF BigIsZero(x.Coeff) THEN DecZero
     ELSE DecReduce(CtxRound(c, Dec("Finite", neg, q, x.Exponent - y.Exponent - k - 1)))

\* Context.Quantize: x at exponent exp.  The result is NaN when x is not
\* finite or when its coefficient at that exponent has more digits than the
\* context's precision.
CtxQuantize(c, x, exp) ==
  LET diff == exp - x.Exponent
      p == Len(x.Coeff) - diff
      r == RoundDigits(p, c.Rounding, [x EXCEPT !.Exponent = 0 - diff])
      q == IF diff < 0 THEN BigShift(x.Coeff, 0 - diff)
           ELSE IF diff = 0 THEN x.Coeff
           ELSE IF p < 0 THEN <<0>>
           ELSE IF r.Exponent > 0 THEN BigMul(r.Coeff, <<1, 0>>)
           ELSE r.Coeff
  IN IF HasNaN(<<x>>) THEN SetIfNaN(<<x>>)
     ELSE IF x.Form = "Infinite" THEN decimalNaN
     ELSE IF Len(q) > c.Precision THEN decimalNaN
     ELSE Dec("Finite", x.Negative, q, exp)

\* ------------------------------------------------------------------------
\* Currency registry (currency.go, register.go)
\* ------------------------------------------------------------------------

VARIABLES
  currencies,       \* code -> [numericCode, digits]
  currencyCodes,    \* all known codes, in order
  currencySymbols,  \* code -> sequence of [symbol, locales]
  a,                \* the Amount the caller holds
  last,             \* the last call: its arguments and what it returned
  walk,             \* a loop over the parents of a locale: where it is
  threads,          \* the calls that run at the same time: where each one is
  contexts          \* the two package-level decimal contexts

vars == <<currencies, currencyCodes, currencySymbols, a, last, walk, threads, contexts>>

USD == <<"U", "S", "D">>
EUR == <<"E", "U", "R">>
JPY == <<"J", "P", "Y">>
ETH == <<"E", "T", "H">>
DOGE == <<"D", "O", "G", "E">>
LowerUSD == <<"u", "s", "d">>
EmptyCode == <<>>

\* DefaultDigits is a placeholder for each currency's number of fraction digits.
DefaultDigits == 255

\* The built-in tables (generated data), reduced to three currencies.
BuiltinCodes == <<EUR, JPY, USD>>
BuiltinCurrencies ==
  [c \in {EUR, JPY, USD} |->
     IF c = JPY THEN [numericCode |-> "392", digits |-> 0]
     ELSE IF c = EUR THEN [numericCode |-> "978", digits |-> 2]
     ELSE [numericCode |-> "840", digits |-> 2]]
EuroSign == "U+20AC"
BuiltinSymbols ==
  [c \in {USD, EUR} |->
     IF c = EUR THEN <<[symbol |-> <<EuroSign>>, locales |-> <<<<"e", "n">>>>]>>
     ELSE <<[symbol |-> <<"$">>, locales |-> <<<<"e", "n">>>>],
            [symbol |-> <<"U", "S", "$">>,
             locales |-> <<<<"e", "n", "-", "A", "U">>, <<"e", "s">>>>]>>]

\* IsValid: an empty currency code is considered valid.
IsValid(currencyCode) ==
  IF currencyCode = EmptyCode THEN TRUE ELSE currencyCode \in DOMAIN currencies

GetDigits(currencyCode) ==
  IF currencyCode = EmptyCode \/ ~IsValid(currencyCode)
  THEN [digits |-> 0, ok |-> FALSE]
  ELSE [digits |-> currencies[currencyCode].digits, ok |-> TRUE]

GetNumericCode(currencyCode) ==
  IF currencyCode = EmptyCode \/ ~IsValid(currencyCode)
  THEN [numericCode |-> "000", ok |-> FALSE]
  ELSE [numericCode |-> currencies[currencyCode].numericCode, ok |-> TRUE]

\* ------------------------------------------------------------------------
\* Amount (amount.go)
\* ------------------------------------------------------------------------

Amt(number, code) == [number |-> number, currencyCode |-> code]

\* Amount{}
ZeroAmount == Amt(DecZero, EmptyCode)

NilError == [kind |-> "nil"]
InvalidNumberError(n) == [kind |-> "InvalidNumberError", Number |-> n]
InvalidCurrencyCodeError(c) == [kind |-> "InvalidCurrencyCodeError", CurrencyCode |-> c]
MismatchError(x, y) == [kind |-> "MismatchError", A |-> x, B |-> y]
OtherError == [kind |-> "error"]

\* What a call leaves and returns: the receiver and the argument Amount as
\* they are after the call, the Amount returned, the error, and any other
\* returned value.
Out(recv, arg, val, err, ret) ==
  [a |-> recv, b |-> arg, val |-> val, err |-> err, ret |-> ret]

decimalContextPrecision19 == [Precision |-> 19, Rounding |-> "RoundHalfUp"]
decimalContextPrecision39 == [Precision |-> 39, Rounding |-> "RoundHalfUp"]

\* A variant of decimalContext that never widens the precision.
decimalContextAlways19(decimals) == decimalContextPrecision19

decimalContext(decimals) ==
  IF \E i \in 1..Len(decimals) : BitLenOver31(decimals[i].Coeff)
  THEN decimalContextPrecision39
  ELSE decimalContextPrecision19

roundingContext(decimal, mode) ==
  IF mode = "RoundHalfUp" THEN decimalContext(<<decimal>>)
  ELSE [decimalContext(<<decimal>>) EXCEPT !.Rounding = mode]

\* A variant of NewAmount that leaves the currency code to IsValid alone.
NewAmountByIsValid(n, currencyCode) ==
  LET number == SetString(n)
  IN IF ~number.ok THEN Out(ZeroAmount, ZeroAmount, ZeroAmount, InvalidNumberError(n), 0)
     ELSE IF ~IsValid(currencyCode)
     THEN Out(ZeroAmount, ZeroAmount, ZeroAmount, InvalidCurrencyCodeError(currencyCode), 0)
     ELSE Out(ZeroAmount, ZeroAmount, Amt(number.d, currencyCode), NilError, 0)

NewAmount(n, currencyCode) ==
  LET number == SetString(n)
  IN IF ~number.ok THEN Out(ZeroAmount, ZeroAmount, ZeroAmount, InvalidNumberError(n), 0)
     ELSE IF currencyCode = EmptyCode \/ ~IsValid(currencyCode)
     THEN Out(ZeroAmount, ZeroAmount, ZeroAmount, InvalidCurrencyCodeError(currencyCode), 0)
     ELSE Out(ZeroAmount, ZeroAmount, Amt(number.d, currencyCode), NilError, 0)

Number(x) == DecString(x.number)

\* A variant of Equal that compares the two representations.
EqualByRepresentation(x, y) == x = y

Equal(x, y) ==
  IF x.currencyCode # y.currencyCode THEN FALSE
  ELSE DecCmp(x.number, y.number) = 0

EqualOp(x, y) == Out(x, y, ZeroAmount, NilError, Equal(x, y))

Cmp(x, y) ==
  IF x.currencyCode # y.currencyCode THEN Out(x, y, ZeroAmount, MismatchError(x, y), -1)
  ELSE Out(x, y, ZeroAmount, NilError, DecCmp(x.number, y.number))

\* A variant of Add whose zero test looks at the number alone.
AddZeroNumber(x, y) ==
  IF x.currencyCode # y.currencyCode
  THEN IF DecIsZero(x.number) THEN Out(x, y, y, NilError, 0)
       ELSE IF DecIsZero(y.number) THEN Out(x, y, x, NilError, 0)
       ELSE Out(x, y, ZeroAmount, MismatchError(x, y), 0)
  ELSE Out(x, y,
           Amt(CtxAdd(decimalContext(<<x.number, y.number>>), x.number, y.number, FALSE),
               x.currencyCode),
           NilError, 0)

Add(x, y) ==
  IF x.currencyCode # y.currencyCode
  THEN IF Equal(x, ZeroAmount) THEN Out(x, y, y, NilError, 0)
       ELSE IF Equal(y, ZeroAmount) THEN Out(x, y, x, NilError, 0)
       ELSE Out(x, y, ZeroAmount, MismatchError(x, y), 0)
  ELSE Out(x, y,
           Amt(CtxAdd(decimalContext(<<x.number, y.number>>), x.number, y.number, FALSE),
               x.currencyCode),
           NilError, 0)

\* A variant of Sub that returns b itself when a is the zero value.
SubWithoutNeg(x, y) ==
  IF x.currencyCode # y.currencyCode
  THEN IF Equal(x, ZeroAmount) THEN Out(x, y, y, NilError, 0)
       ELSE IF Equal(y, ZeroAmount) THEN Out(x, y, x, NilError, 0)
       ELSE Out(x, y, ZeroAmount, MismatchError(x, y), 0)
  ELSE Out(x, y,
           Amt(CtxAdd(decimalContext(<<x.number, y.number>>), x.number, y.number, TRUE),
               x.currencyCode),
           NilError, 0)

Sub(x, y) ==
  IF x.currencyCode # y.currencyCode
  THEN IF Equal(x, ZeroAmount) THEN Out(x, y, Amt(DecNeg(y.number), y.currencyCode), NilError, 0)
       ELSE IF Equal(y, ZeroAmount) THEN Out(x, y, x, NilError, 0)
       ELSE Out(x, y, ZeroAmount, MismatchError(x, y), 0)
  ELSE Out(x, y,
           Amt(CtxAdd(decimalContext(<<x.number, y.number>>), x.number, y.number, TRUE),
               x.currencyCode),
           NilError, 0)

Mul(x, n) ==
  LET result == SetString(n)
  IN IF ~result.ok THEN Out(x, ZeroAmount, ZeroAmount, InvalidNumberError(n), 0)
     ELSE Out(x, ZeroAmount,
              Amt(CtxMul(decimalContext(<<x.number, result.d>>), x.number, result.d),
                  x.currencyCode),
              NilError, 0)

\* A variant of Div that recognises a zero divisor by its text "0".
DivZeroByText(x, n) ==
  LET result == SetString(n)
  IN IF ~result.ok THEN Out(x, ZeroAmount, ZeroAmount, InvalidNumberError(n), 0)
     ELSE IF n = <<"0">> THEN Out(x, ZeroAmount, ZeroAmount, InvalidNumberError(n), 0)
     ELSE Out(x, ZeroAmount,
              Amt(CtxQuoReduce(decimalContext(<<x.number, result.d>>), x.number, result.d),
                  x.currencyCode),
              NilError, 0)

Div(x, n) ==
  LET result == SetString(n)
  IN IF ~result.ok THEN Out(x, ZeroAmount, ZeroAmount, InvalidNumberError(n), 0)
     ELSE IF DecIsZero(result.d) THEN Out(x, ZeroAmount, ZeroAmount, InvalidNumberError(n), 0)
     ELSE Out(x, ZeroAmount,
              Amt(CtxQuoReduce(decimalContext(<<x.number, result.d>>), x.number, result.d),
                  x.currencyCode),
              NilError, 0)

Convert(x, currencyCode, rate) ==
  LET result == SetString(rate)
  IN IF currencyCode = EmptyCode \/ ~IsValid(currencyCode)
     THEN Out(x, ZeroAmount, ZeroAmount, InvalidCurrencyCodeError(currencyCode), 0)
     ELSE IF ~result.ok THEN Out(x, ZeroAmount, ZeroAmount, InvalidNumberError(rate), 0)
     ELSE Out(x, ZeroAmount,
              Amt(CtxMul(decimalContext(<<x.number, result.d>>), x.number, result.d),
                  currencyCode),
              NilError, 0)

\* A variant of RoundTo that takes digits as the number of digits to drop.
RoundToRelative(x, digits, mode) ==
  LET dg == IF digits = DefaultDigits THEN GetDigits(x.currencyCode).digits ELSE digits
  IN Out(x, ZeroAmount,
         Amt(CtxQuantize(roundingContext(x.number, mode), x.number, x.number.Exponent + dg),
             x.currencyCode),
         NilError, 0)

\* A variant of RoundTo that quantizes the receiver's number in place.
RoundToInPlace(x, digits, mode) ==
  LET dg == IF digits = DefaultDigits THEN GetDigits(x.currencyCode).digits ELSE digits
      result == Amt(CtxQuantize(roundingContext(x.number, mode), x.number, 0 - dg),
                    x.currencyCode)
  IN Out(result, ZeroAmount, result, NilError, 0)

RoundTo(x, digits, mode) ==
  LET dg == IF digits = DefaultDigits THEN GetDigits(x.currencyCode).digits ELSE digits
  IN Out(x, ZeroAmount,
         Amt(CtxQuantize(roundingContext(x.number, mode), x.number, 0 - dg), x.currencyCode),
         NilError, 0)

Round(x) == RoundTo(x, DefaultDigits, "RoundHalfUp")

\* BigInt: the coefficient of the rounded number.
BigInt(x) == Out(x, ZeroAmount, ZeroAmount, NilError, Round(x).val.number.Coeff)

MaxInt64 == <<9, 2, 2, 3, 3, 7, 2, 0, 3, 6, 8, 5, 4, 7, 7, 5, 8, 0, 7>>
MinInt64Magnitude == <<9, 2, 2, 3, 3, 7, 2, 0, 3, 6, 8, 5, 4, 7, 7, 5, 8, 0, 8>>

\* Int64: the rounded number with its exponent set to 0, as an int64
\* (sign and magnitude); an error when it is not finite or does not fit.
Int64(x) ==
  LET n == [Round(x).val.number EXCEPT !.Exponent = 0]
      fits == IF n.Negative THEN BigCmp(n.Coeff, MinInt64Magnitude) <= 0
              ELSE BigCmp(n.Coeff, MaxInt64) <= 0
  IN IF n.Form # "Finite" \/ ~fits
     THEN Out(x, ZeroAmount, ZeroAmount, OtherError, [neg |-> FALSE, mag |-> <<0>>])
     ELSE Out(x, ZeroAmount, ZeroAmount, NilError,
              [neg |-> n.Negative /\ ~BigIsZero(n.Coeff), mag |-> n.Coeff])

\* MarshalBinary: the currency code followed by the number string.
MarshalBinary(x) ==
  Out(x, ZeroAmount, ZeroAmount, NilError, x.currencyCode \o Number(x))

\* UnmarshalBinary (pointer receiver): x is the Amount written to.
UnmarshalBinary(x, data) ==
  LET n == SubSeq(data, 4, Len(data))
      currencyCode == SubSeq(data, 1, 3)
      number == SetString(n)
  IN IF Len(data) < 3 THEN Out(x, ZeroAmount, ZeroAmount, InvalidCurrencyCodeError(data), 0)
     ELSE IF ~number.ok THEN Out(x, ZeroAmount, ZeroAmount, InvalidNumberError(n), 0)
     ELSE IF currencyCode = EmptyCode \/ ~IsValid(currencyCode)
     THEN Out(x, ZeroAmount, ZeroAmount, InvalidCurrencyCodeError(currencyCode), 0)
     ELSE Out(Amt(number.d, currencyCode), ZeroAmount, ZeroAmount, NilError, 0)

\* Value: the wire format "(9.99,USD)".
Value(x) ==
  Out(x, ZeroAmount, ZeroAmount, NilError,
      <<"(">> \o Number(x) \o <<",">> \o x.currencyCode \o <<")">>)

\* strings.Trim(input, "()")
RECURSIVE TrimLeftParens(_)
TrimLeftParens(s) ==
  IF Len(s) > 0 /\ s[1] \in {"(", ")"} THEN TrimLeftParens(Tail(s)) ELSE s

RECURSIVE TrimRightParens(_)
TrimRightParens(s) ==
  IF Len(s) > 0 /\ s[Len(s)] \in {"(", ")"}
  THEN TrimRightParens(SubSeq(s, 1, Len(s) - 1)) ELSE s

TrimParens(s) == TrimRightParens(TrimLeftParens(s))

\* strings.Split(input, ","): the pieces between the commas.
RECURSIVE Split(_)
Split(s) ==
  LET cs == {i \in 1..Len(s) : s[i] = ","}
  IN IF cs = {} THEN <<s>>
     ELSE <<SubSeq(s, 1, SetMin(cs) - 1)>> \o Split(SubSeq(s, SetMin(cs) + 1, Len(s)))

\* What a call that panics leaves in place of an error value.
RuntimePanic == [kind |-> "panic"]

ThreeSpaces == <<" ", " ", " ">>

\* A variant of Scan that stores the number as soon as it has parsed.
ScanNumberFirst(x, input) ==
  LET values == Split(TrimParens(input))
      n == values[1]
      currencyCode == values[2]
      number == SetString(n)
  IN IF Len(input) = 0 THEN Out(x, ZeroAmount, ZeroAmount, NilError, 0)
     ELSE IF Len(values) < 2 THEN Out(x, ZeroAmount, ZeroAmount, RuntimePanic, 0)
     ELSE IF ~number.ok THEN Out(x, ZeroAmount, ZeroAmount, InvalidNumberError(n), 0)
     ELSE IF (currencyCode = EmptyCode \/ currencyCode = ThreeSpaces) /\ DecIsZero(number.d)
     THEN Out(Amt(number.d, EmptyCode), ZeroAmount, ZeroAmount, NilError, 0)
     ELSE IF currencyCode = EmptyCode \/ ~IsValid(currencyCode)
     THEN Out(Amt(number.d, x.currencyCode), ZeroAmount, ZeroAmount,
              InvalidCurrencyCodeError(currencyCode), 0)
     ELSE Out(Amt(number.d, currencyCode), ZeroAmount, ZeroAmount, NilError, 0)

\* Scan (pointer receiver): x is the Amount written to, input the string.
Scan(x, input) ==
  LET values == Split(TrimParens(input))
      n == values[1]
      currencyCode == values[2]
      number == SetString(n)
  IN IF Len(input) = 0 THEN Out(x, ZeroAmount, ZeroAmount, NilError, 0)
     ELSE IF Len(values) < 2 THEN Out(x, ZeroAmount, ZeroAmount, RuntimePanic, 0)
     ELSE IF ~number.ok THEN Out(x, ZeroAmount, ZeroAmount, InvalidNumberError(n), 0)
     ELSE IF (currencyCode = EmptyCode \/ currencyCode = ThreeSpaces) /\ DecIsZero(number.d)
     THEN Out(Amt(number.d, EmptyCode), ZeroAmount, ZeroAmount, NilError, 0)
     ELSE IF currencyCode = EmptyCode \/ ~IsValid(currencyCode)
     THEN Out(x, ZeroAmount, ZeroAmount, InvalidCurrencyCodeError(currencyCode), 0)
     ELSE Out(Amt(number.d, currencyCode), ZeroAmount, ZeroAmount, NilError, 0)

EmptyCurrencyCodeError == [kind |-> "EmptyCurrencyCodeError"]
CurrencyAlreadyExistsError(code) == [kind |-> "CurrencyAlreadyExistsError", Code |-> code]

\* The rows that RegisterCurrency adds for code.
RegisteredTables(code, opts) ==
  [currencies |->
     [c \in DOMAIN currencies \cup {code} |->
        IF c = code THEN [numericCode |-> opts.NumericCode, digits |-> opts.Digits]
        ELSE currencies[c]],
   currencyCodes |-> Append(currencyCodes, code),
   currencySymbols |->
     IF Len(opts.SymbolData) > 0
     THEN [c \in DOMAIN currencySymbols \cup {code} |->
             IF c = code
             THEN (IF code \in DOMAIN currencySymbols THEN currencySymbols[code] ELSE <<>>)
                  \o [i \in 1..Len(opts.SymbolData) |->
                        [symbol |-> opts.SymbolData[i].Symbol,
                         locales |-> opts.SymbolData[i].Locales]]
             ELSE currencySymbols[c]]
     ELSE currencySymbols,
   err |-> NilError]

\* A variant of RegisterCurrency that replaces the rows of a code that
\* exists.
RegisterCurrencyOverwrite(code, opts) ==
  IF code = EmptyCode
  THEN [currencies |-> currencies, currencyCodes |-> currencyCodes,
        currencySymbols |-> currencySymbols, err |-> EmptyCurrencyCodeError]
  ELSE RegisteredTables(code, opts)

\* RegisterCurrency: the three tables after the call, and the error.
RegisterCurrency(code, opts) ==
  IF code = EmptyCode
  THEN [currencies |-> currencies, currencyCodes |-> currencyCodes,
        currencySymbols |-> currencySymbols, err |-> EmptyCurrencyCodeError]
  ELSE IF code \in DOMAIN currencies
  THEN [currencies |-> currencies, currencyCodes |-> currencyCodes,
        currencySymbols |-> currencySymbols, err |-> CurrencyAlreadyExistsError(code)]
  ELSE [currencies |->
          [c \in DOMAIN currencies \cup {code} |->
             IF c = code THEN [numericCode |-> opts.NumericCode, digits |-> opts.Digits]
             ELSE currencies[c]],
        currencyCodes |-> Append(currencyCodes, code),
        currencySymbols |->
          IF Len(opts.SymbolData) > 0
          THEN [c \in DOMAIN currencySymbols \cup {code} |->
                  IF c = code
                  THEN (IF code \in DOMAIN currencySymbols THEN currencySymbols[code] ELSE <<>>)
                       \o [i \in 1..Len(opts.SymbolData) |->
                             [symbol |-> opts.SymbolData[i].Symbol,
                              locales |-> opts.SymbolData[i].Locales]]
                  ELSE currencySymbols[c]]
          ELSE currencySymbols,
        err |-> NilError]

\* ------------------------------------------------------------------------
\* Locale (locale.go). Identifiers are strings of one-byte characters.
\* ------------------------------------------------------------------------

Locale(language, script, territory) ==
  [Language |-> language, Script |-> script, Territory |-> territory]

\* Locale{}
EmptyLocale == Locale(<<>>, <<>>, <<>>)

IsEmpty(l) == l.Language = <<>> /\ l.Script = <<>> /\ l.Territory = <<>>

WhiteSpace == {" ", "\t"}

RECURSIVE TrimSpaceLeft(_)
TrimSpaceLeft(s) ==
  IF Len(s) > 0 /\ s[1] \in WhiteSpace THEN TrimSpaceLeft(Tail(s)) ELSE s
RECURSIVE TrimSpaceRight(_)
TrimSpaceRight(s) ==
  IF Len(s) > 0 /\ s[Len(s)] \in WhiteSpace
  THEN TrimSpaceRight(SubSeq(s, 1, Len(s) - 1)) ELSE s
TrimSpace(s) == TrimSpaceRight(TrimSpaceLeft(s))

ToUpper(c) ==
  IF \E i \in 1..26 : LowerChars[i] = c
  THEN UpperChars[CHOOSE i \in 1..26 : LowerChars[i] = c]
  ELSE c
StringsToLower(s) == [i \in 1..Len(s) |-> ToLower(s[i])]
StringsToUpper(s) == [i \in 1..Len(s) |-> ToUpper(s[i])]
ReplaceAll(s, old, new) == [i \in 1..Len(s) |-> IF s[i] = old THEN new ELSE s[i]]

\* strings.Split(s, sep) for a separator of one character.
RECURSIVE SplitBy(_, _)
SplitBy(s, sep) ==
  IF \E i \in 1..Len(s) : s[i] = sep
  THEN LET i == SetMin({k \in 1..Len(s) : s[k] = sep})
       IN <<SubSeq(s, 1, i - 1)>> \o SplitBy(SubSeq(s, i + 1, Len(s)), sep)
  ELSE <<s>>

\* The body of the loop of NewLocale for the parts from the i-th on.
RECURSIVE NewLocaleParts(_, _, _)
NewLocaleParts(parts, i, locale) ==
  IF i > Len(parts) THEN locale
  ELSE LET part == parts[i]
           partLen == Len(part)
       IN IF i = 1 THEN NewLocaleParts(parts, i + 1, [locale EXCEPT !.Language = part])
          ELSE IF partLen = 4
          THEN NewLocaleParts(parts, i + 1,
                 [locale EXCEPT !.Script = <<ToUpper(part[1])>> \o Tail(part)])
          ELSE IF partLen = 2 \/ partLen = 3
          THEN NewLocaleParts(parts, i + 1, [locale EXCEPT !.Territory = StringsToUpper(part)])
          ELSE NewLocaleParts(parts, i + 1, locale)

\* A variant of NewLocale that does not trim the identifier.
NewLocaleUntrimmed(id) ==
  NewLocaleParts(SplitBy(ReplaceAll(StringsToLower(id), "_", "-"), "-"), 1, EmptyLocale)

NewLocale(id) ==
  NewLocaleParts(SplitBy(ReplaceAll(StringsToLower(TrimSpace(id)), "_", "-"), "-"),
                 1, EmptyLocale)

\* Locale.String
String(l) ==
  l.Language
    \o (IF l.Script # <<>> THEN <<"-">> \o l.Script ELSE <<>>)
    \o (IF l.Territory # <<>> THEN <<"-">> \o l.Territory ELSE <<>>)

ID_en == <<"e", "n">>
ID_uk == <<"u", "k">>
ID_fr == <<"f", "r">>
ID_es == <<"e", "s">>
ID_sr == <<"s", "r">>
ID_en_US == <<"e", "n", "-", "U", "S">>
ID_en_AT == <<"e", "n", "-", "A", "T">>
ID_en_150 == <<"e", "n", "-", "1", "5", "0">>
ID_en_001 == <<"e", "n", "-", "0", "0", "1">>
ID_es_AR == <<"e", "s", "-", "A", "R">>
ID_es_419 == <<"e", "s", "-", "4", "1", "9">>
ID_sr_Latn == <<"s", "r", "-", "L", "a", "t", "n">>
ID_sr_Latn_RS == <<"s", "r", "-", "L", "a", "t", "n", "-", "R", "S">>

\* The table of the locales with a special parent: some of its rows.
parentLocales ==
  [id \in {ID_es_AR, ID_sr_Latn, ID_en_AT, ID_en_150} |->
     IF id = ID_es_AR THEN ID_es_419
     ELSE IF id = ID_sr_Latn THEN ID_en
     ELSE IF id = ID_en_AT THEN ID_en_150
     ELSE ID_en_001]

\* A variant of GetParent in which a locale of a language alone is its own
\* parent.
GetParentKeepLanguage(l) ==
  LET localeID == String(l)
  IN IF localeID = <<>> \/ localeID = ID_en THEN EmptyLocale
     ELSE IF localeID \in DOMAIN parentLocales THEN NewLocale(parentLocales[localeID])
     ELSE IF l.Territory # <<>> THEN Locale(l.Language, l.Script, <<>>)
     ELSE Locale(l.Language, <<>>, <<>>)

GetParent(l) ==
  LET localeID == String(l)
  IN IF localeID = <<>> \/ localeID = ID_en THEN EmptyLocale
     ELSE IF localeID \in DOMAIN parentLocales THEN NewLocale(parentLocales[localeID])
     ELSE IF l.Territory # <<>> THEN Locale(l.Language, l.Script, <<>>)
     ELSE IF l.Script # <<>> THEN Locale(l.Language, <<>>, <<>>)
     ELSE Locale(ID_en, <<>>, <<>>)

\* ------------------------------------------------------------------------
\* Symbols (currency.go)
\* ------------------------------------------------------------------------

\* The characters of the identifiers and symbols in ascending byte order.
ByteOrder ==
  <<"\t", " ", "$", "-">> \o DigitChars \o UpperChars \o <<"_">> \o LowerChars
ByteOf(c) == CHOOSE i \in 1..Len(ByteOrder) : ByteOrder[i] = c

\* x < y for two Go strings.
RECURSIVE StringLess(_, _)
StringLess(x, y) ==
  IF Len(y) = 0 THEN FALSE
  ELSE IF Len(x) = 0 THEN TRUE
  ELSE IF x[1] # y[1] THEN ByteOf(x[1]) < ByteOf(y[1])
  ELSE StringLess(Tail(x), Tail(y))

\* sort.SearchStrings(list, x): binary search between i and j, counted from 0.
RECURSIVE SearchStrings(_, _, _, _)
SearchStrings(list, x, i, j) ==
  IF i < j
  THEN LET h == (i + j) \div 2
       IN IF StringLess(list[h + 1], x) THEN SearchStrings(list, x, h + 1, j)
          ELSE SearchStrings(list, x, i, h)
  ELSE i

\* contains: linear search in a short slice, binary search in a long one.
contains(list, x) ==
  LET n == Len(list)
  IN IF n < 10 THEN \E k \in 1..n : list[k] = x
     ELSE LET i == SearchStrings(list, x, 0, n)
          IN i < n /\ list[i + 1] = x

\* The inner loop of GetSymbol: the symbol of the first entry whose locales
\* contain localeID, or "".
ScanSymbols(symbols, localeID) ==
  IF \E k \in 1..Len(symbols) : contains(symbols[k].locales, localeID)
  THEN symbols[SetMin({k \in 1..Len(symbols) : contains(symbols[k].locales, localeID)})].symbol
  ELSE <<>>

\* The outer loop of GetSymbol.
RECURSIVE GetSymbolLoop(_, _)
GetSymbolLoop(symbols, locale) ==
  LET symbol == ScanSymbols(symbols, String(locale))
  IN IF symbol # <<>> THEN symbol
     ELSE IF IsEmpty(GetParent(locale)) THEN symbol
     ELSE GetSymbolLoop(symbols, GetParent(locale))

GetSymbol(currencyCode, locale) ==
  IF currencyCode = EmptyCode \/ ~IsValid(currencyCode)
  THEN [symbol |-> currencyCode, ok |-> FALSE]
  ELSE IF currencyCode \notin DOMAIN currencySymbols
  THEN [symbol |-> currencyCode, ok |-> TRUE]
  ELSE IF locale = Locale(ID_en, <<>>, <<>>) \/ locale = Locale(ID_en, <<>>, <<"U", "S">>)
          \/ IsEmpty(locale)
  THEN [symbol |-> currencySymbols[currencyCode][1].symbol, ok |-> TRUE]
  ELSE [symbol |-> GetSymbolLoop(currencySymbols[currencyCode], locale), ok |-> TRUE]

\* ------------------------------------------------------------------------
\* Inputs
\* ------------------------------------------------------------------------

S_0 == <<"0">>
S_Neg0 == <<"-", "0">>
S_0_00 == <<"0", ".", "0", "0">>
S_0_001 == <<"0", ".", "0", "0", "1">>
S_3 == <<"3">>
S_Neg4 == <<"-", "4">>
S_Neg1 == <<"-", "1">>
S_0_20 == <<"0", ".", "2", "0">>
S_0_91 == <<"0", ".", "9", "1">>
S_3_5 == <<"3", ".", "5">>
S_3_50 == <<"3", ".", "5", "0">>
S_20_99 == <<"2", "0", ".", "9", "9">>
S_12_345 == <<"1", "2", ".", "3", "4", "5">>
S_Neg12_335 == <<"-", "1", "2", ".", "3", "3", "5">>
S_9_995 == <<"9", ".", "9", "9", "5">>
\* 2^31 - 1 and 2^31: the last coefficient of the 19-digit context and the
\* first of the 39-digit one.
S_MaxInt32 == <<"2", "1", "4", "7", "4", "8", "3", "6", "4", "7">>
S_TwoPow31 == <<"2", "1", "4", "7", "4", "8", "3", "6", "4", "8">>
\* 24 significant digits.
S_Big24 == <<"1", "2", "3", "4", "5", "6", "7", "8", "9", "0",
             "1", "2", "3", "4", "5", "6", "7", "8", "9", "0", ".", "0", "3", "4", "5">>
\* 40 significant digits.
S_Big40 == <<"1", "2", "3", "4", "5", "6", "7", "8", "9", "0",
             "1", "2", "3", "4", "5", "6", "7", "8", "9", "0",
             "1", "2", "3", "4", "5", "6", "7", "8", "9", "0",
             "1", "2", "3", "4", "5", "6", "7", "8", ".", "9", "1">>
S_NaN == <<"N", "a", "N">>
S_Infinity == <<"I", "n", "f", "i", "n", "i", "t", "y">>
S_1E2 == <<"1", "E", "+", "2">>
S_Invalid == <<"I", "N", "V", "A", "L", "I", "D">>
S_Empty == <<>>
S_TwoDots == <<"1", ".", "2", ".", "3">>

\* Numeric strings given to NewAmount.
AmountNumbers ==
  {S_0, S_Neg0, S_0_00, S_0_001, S_3_5, S_3_50, S_20_99, S_12_345, S_Neg12_335, S_9_995,
   S_MaxInt32, S_TwoPow31, S_Big24, S_Big40, S_NaN, S_Infinity, S_1E2, S_Invalid,
   S_Empty, S_TwoDots}

\* Currency codes given to NewAmount and Convert.
AmountCodes == {USD, JPY, ETH, LowerUSD, EmptyCode}

\* The argument Amounts of Add, Sub, Cmp and Equal: the zero value and the
\* Amounts NewAmount returns for these numbers and codes.
ArgNumbers == {S_0, S_3_50, S_Neg12_335, S_TwoPow31, S_Big40, S_NaN}
ArgCodes == {USD, JPY}
ArgAmounts ==
  {ZeroAmount} \cup {NewAmount(n, c).val : n \in ArgNumbers, c \in ArgCodes}

\* Scalars given to Mul, to Div and to Convert.
Multipliers == {S_0_20, S_Neg1, S_0, S_TwoPow31, S_Big40, S_NaN, S_Infinity, S_Invalid}
Divisors == {S_3, S_Neg4, S_0, S_0_00, S_Neg0, S_TwoPow31, S_NaN, S_Infinity, S_Invalid,
             S_TwoDots}
Rates == {S_0_91, S_Big40, S_Invalid}

\* Digits given to RoundTo: 0..MaxRoundDigits, a count that no longer fits
\* the 19-digit context, the largest count and the placeholder.
MaxRoundDigits == 3
ManyDigits == 18
MaxUint8Digits == DefaultDigits - 1
RoundDigitsArgs == (0..MaxRoundDigits) \cup {ManyDigits, MaxUint8Digits, DefaultDigits}

\* Bytes given to UnmarshalBinary besides what MarshalBinary returned.
BinaryInputs ==
  {<<>>, <<"U", "S">>, <<"U", "S", "D">>, <<"U", "S", "D", "3", ",", "6", "0">>,
   <<"X", "X", "X", "2", ".", "6", "0">>, <<"U", "S", "D", "3", ".", "4", "5">>}

\* Options given to RegisterCurrency.
RegisterCodes == {ETH, USD, EmptyCode}
RegisterOptions ==
  {[NumericCode |-> "1000", Digits |-> ManyDigits, SymbolData |-> <<>>],
   [NumericCode |-> "1000", Digits |-> ManyDigits,
    SymbolData |-> <<[Symbol |-> ETH, Locales |-> <<<<"e", "n">>>>]>>]}

\* ------------------------------------------------------------------------
\* The state machine: a caller holding one Amount
\* ------------------------------------------------------------------------

NoArgs == [n |-> <<>>, code |-> <<>>, digits |-> 0, mode |-> "", opts |-> <<>>,
           data |-> <<>>]

Call(op, recv, arg, args, out) ==
  [op |-> op, recv |-> recv, arg |-> arg, args |-> args, out |-> out]

NoCall == Call("none", ZeroAmount, ZeroAmount, NoArgs, Out(ZeroAmount, ZeroAmount, ZeroAmount, NilError, 0))

\* No loop is running; the caller holds the Locale l.
NoWalk ==
  [pc |-> "none", loop |-> "", l |-> EmptyLocale, parsed |-> TRUE, locale |-> EmptyLocale,
   seen |-> <<>>, code |-> EmptyCode]

\* The calls that run at the same time as others, one per thread.
ThreadIds == {"t1", "t2", "t3"}

NoObservation == [valid |-> FALSE, inList |-> FALSE, symbol |-> FALSE]
NoContext == [ref |-> "", private |-> decimalContextPrecision19]

\* A thread that is in no call.
NoThread ==
  [pc |-> "idle", op |-> "", code |-> EmptyCode, opts |-> <<>>, fresh |-> FALSE,
   overlap |-> {}, codes |-> <<>>, obs |-> NoObservation, x |-> ZeroAmount, digits |-> 0,
   mode |-> "", ctx |-> NoContext, val |-> ZeroAmount, err |-> NilError]

\* var decimalContextPrecision19, decimalContextPrecision39
PackageContexts == [p19 |-> decimalContextPrecision19, p39 |-> decimalContextPrecision39]

Init ==
  /\ threads = [t \in ThreadIds |-> NoThread]
  /\ contexts = PackageContexts
  /\ currencies = BuiltinCurrencies
  /\ currencyCodes = BuiltinCodes
  /\ currencySymbols = BuiltinSymbols
  /\ a = ZeroAmount
  /\ last = NoCall
  /\ walk = NoWalk

Registry == <<currencies, currencyCodes, currencySymbols>>

\* The caller makes one call at a time and has looked at what the previous
\* one returned.
Idle == last.op = "none"

\* a, err := NewAmount(n, code)
DoNewAmount ==
  /\ Idle
  /\ \E n \in AmountNumbers, c \in AmountCodes :
       LET out == NewAmount(n, c)
       IN /\ a' = out.val
          /\ last' = Call("NewAmount", ZeroAmount, ZeroAmount,
                          [NoArgs EXCEPT !.n = n, !.code = c], out)
          /\ UNCHANGED <<Registry, walk, threads, contexts>>

DoAdd ==
  /\ Idle
  /\ \E b \in ArgAmounts :
       LET out == Add(a, b)
       IN /\ a' = out.a
          /\ last' = Call("Add", a, b, NoArgs, out)
          /\ UNCHANGED <<Registry, walk, threads, contexts>>

\* The zero value as the receiver: z.Add(a), with a the argument.
DoAddToZero ==
  /\ Idle
  /\ LET out == Add(ZeroAmount, a)
     IN /\ a' = out.b
        /\ last' = Call("Add", ZeroAmount, a, NoArgs, out)
        /\ UNCHANGED <<Registry, walk, threads, contexts>>

DoSub ==
  /\ Idle
  /\ \E b \in ArgAmounts :
       LET out == Sub(a, b)
       IN /\ a' = out.a
          /\ last' = Call("Sub", a, b, NoArgs, out)
          /\ UNCHANGED <<Registry, walk, threads, contexts>>

DoSubFromZero ==
  /\ Idle
  /\ LET out == Sub(ZeroAmount, a)
     IN /\ a' = out.b
        /\ last' = Call("Sub", ZeroAmount, a, NoArgs, out)
        /\ UNCHANGED <<Registry, walk, threads, contexts>>

DoCmp ==
  /\ Idle
  /\ \E b \in ArgAmounts :
       LET out == Cmp(a, b)
       IN /\ a' = out.a
          /\ last' = Call("Cmp", a, b, NoArgs, out)
          /\ UNCHANGED <<Registry, walk, threads, contexts>>

DoCmpToZero ==
  /\ Idle
  /\ LET out == Cmp(ZeroAmount, a)
     IN /\ a' = out.b
        /\ last' = Call("Cmp", ZeroAmount, a, NoArgs, out)
        /\ UNCHANGED <<Registry, walk, threads, contexts>>

DoEqual ==
  /\ Idle
  /\ \E b \in ArgAmounts :
       LET out == EqualOp(a, b)
       IN /\ a' = out.a
          /\ last' = Call("Equal", a, b, NoArgs, out)
          /\ UNCHANGED <<Registry, walk, threads, contexts>>

DoEqualToZero ==
  /\ Idle
  /\ LET out == EqualOp(ZeroAmount, a)
     IN /\ a' = out.b
        /\ last' = Call("Equal", ZeroAmount, a, NoArgs, out)
        /\ UNCHANGED <<Registry, walk, threads, contexts>>

DoMul ==
  /\ Idle
  /\ \E n \in Multipliers :
       LET out == Mul(a, n)
       IN /\ a' = out.a
          /\ last' = Call("Mul", a, ZeroAmount, [NoArgs EXCEPT !.n = n], out)
          /\ UNCHANGED <<Registry, walk, threads, contexts>>

DoDiv ==
  /\ Idle
  /\ \E n \in Divisors :
       LET out == Div(a, n)
       IN /\ a' = out.a
          /\ last' = Call("Div", a, ZeroAmount, [NoArgs EXCEPT !.n = n], out)
          /\ UNCHANGED <<Registry, walk, threads, contexts>>

DoConvert ==
  /\ Idle
  /\ \E c \in AmountCodes, r \in Rates :
       LET out == Convert(a, c, r)
       IN /\ a' = out.a
          /\ last' = Call("Convert", a, ZeroAmount, [NoArgs EXCEPT !.n = r, !.code = c], out)
          /\ UNCHANGED <<Registry, walk, threads, contexts>>

DoRound ==
  /\ Idle
  /\ LET out == Round(a)
     IN /\ a' = out.a
        /\ last' = Call("Round", a, ZeroAmount, NoArgs, out)
        /\ UNCHANGED <<Registry, walk, threads, contexts>>

DoRoundTo ==
  /\ Idle
  /\ \E d \in RoundDigitsArgs, m \in RoundingModes :
       LET out == RoundTo(a, d, m)
       IN /\ a' = out.a
          /\ last' = Call("RoundTo", a, ZeroAmount, [NoArgs EXCEPT !.digits = d, !.mode = m], out)
          /\ UNCHANGED <<Registry, walk, threads, contexts>>

DoBigInt ==
  /\ Idle
  /\ LET out == BigInt(a)
     IN /\ a' = out.a
        /\ last' = Call("BigInt", a, ZeroAmount, NoArgs, out)
        /\ UNCHANGED <<Registry, walk, threads, contexts>>

DoInt64 ==
  /\ Idle
  /\ LET out == Int64(a)
     IN /\ a' = out.a
        /\ last' = Call("Int64", a, ZeroAmount, NoArgs, out)
        /\ UNCHANGED <<Registry, walk, threads, contexts>>

DoRegisterCurrency ==
  /\ Idle
  /\ \E c \in RegisterCodes, o \in RegisterOptions :
       LET reg == RegisterCurrency(c, o)
       IN /\ currencies' = reg.currencies
          /\ currencyCodes' = reg.currencyCodes
          /\ currencySymbols' = reg.currencySymbols
          /\ last' = Call("RegisterCurrency", a, ZeroAmount, [NoArgs EXCEPT !.code = c, !.opts = o],
                          Out(a, ZeroAmount, ZeroAmount, reg.err, 0))
          /\ UNCHANGED <<a, walk, threads, contexts>>

\* The caller is done with what the call returned.
Return ==
  /\ ~Idle
  /\ last' = NoCall
  /\ UNCHANGED <<currencies, currencyCodes, currencySymbols, a, walk, threads, contexts>>

Next ==
  \/ DoNewAmount
  \/ DoAdd
  \/ DoAddToZero
  \/ DoSub
  \/ DoSubFromZero
  \/ DoCmp
  \/ DoCmpToZero
  \/ DoEqual
  \/ DoEqualToZero
  \/ DoMul
  \/ DoDiv
  \/ DoConvert
  \/ DoRound
  \/ DoRoundTo
  \/ DoBigInt
  \/ DoInt64
  \/ DoRegisterCurrency
  \/ Return

Spec == Init /\ [][Next]_vars

\* ------------------------------------------------------------------------
\* Serialization: a caller that creates Amounts, also in a currency
\* registered at run time under a four-letter code, and encodes and
\* decodes them
\* ------------------------------------------------------------------------

CodecNumbers == {S_0, S_Neg0, S_0_00, S_3_50, S_Neg12_335, S_Big24, S_NaN, S_1E2, S_Invalid}
CodecCodes == {USD, DOGE, LowerUSD, EmptyCode}
CodecRegisterCodes == {DOGE, USD}

DoNewAmountCodec ==
  /\ Idle
  /\ \E n \in CodecNumbers, c \in CodecCodes :
       LET out == NewAmount(n, c)
       IN /\ a' = out.val
          /\ last' = Call("NewAmount", ZeroAmount, ZeroAmount,
                          [NoArgs EXCEPT !.n = n, !.code = c], out)
          /\ UNCHANGED <<Registry, walk, threads, contexts>>

DoRegisterCodec ==
  /\ Idle
  /\ \E c \in CodecRegisterCodes, o \in RegisterOptions :
       LET reg == RegisterCurrency(c, o)
       IN /\ currencies' = reg.currencies
          /\ currencyCodes' = reg.currencyCodes
          /\ currencySymbols' = reg.currencySymbols
          /\ last' = Call("RegisterCurrency", a, ZeroAmount, [NoArgs EXCEPT !.code = c, !.opts = o],
                          Out(a, ZeroAmount, ZeroAmount, reg.err, 0))
          /\ UNCHANGED <<a, walk, threads, contexts>>

DoMarshalBinary ==
  /\ Idle
  /\ LET out == MarshalBinary(a)
     IN /\ a' = out.a
        /\ last' = Call("MarshalBinary", a, ZeroAmount, NoArgs, out)
        /\ UNCHANGED <<Registry, walk, threads, contexts>>

\* a.UnmarshalBinary(data), the data being what a.MarshalBinary() returned
\* or other bytes.
DoUnmarshalBinary ==
  /\ Idle
  /\ \E data \in BinaryInputs \cup {MarshalBinary(a).ret} :
       LET out == UnmarshalBinary(a, data)
       IN /\ a' = out.a
          /\ last' = Call("UnmarshalBinary", a, ZeroAmount, [NoArgs EXCEPT !.data = data], out)
          /\ UNCHANGED <<Registry, walk, threads, contexts>>

\* The pair "(n,c)" as it is written on the wire.
PairString(n, c) == <<"(">> \o n \o <<",">> \o c \o <<")">>

\* Numbers and currency columns given to Scan as a pair.
ScanNumbers == {S_0, S_0_00, S_Neg0, S_3_50, S_Invalid}
MaxBlanks == 4
Blanks(k) == [i \in 1..k |-> " "]
ScanCodes == {Blanks(k) : k \in 0..MaxBlanks} \cup {USD, LowerUSD}

\* Strings given to Scan that are no pair: no comma, no parentheses, two
\* commas, nothing at all.
ScanRawInputs ==
  {<<>>, <<"3", ".", "5", "0">>, <<"(", "3", ".", "5", "0", ")">>,
   <<"3", ".", "5", "0", ",", "U", "S", "D">>,
   <<"(", "1", ",", "U", "S", "D", ",", "2", ")">>}

DoValue ==
  /\ Idle
  /\ LET out == Value(a)
     IN /\ a' = out.a
        /\ last' = Call("Value", a, ZeroAmount, NoArgs, out)
        /\ UNCHANGED <<Registry, walk, threads, contexts>>

\* a.Scan("(n,c)")
DoScan ==
  /\ Idle
  /\ \E n \in ScanNumbers, c \in ScanCodes :
       LET out == Scan(a, PairString(n, c))
       IN /\ a' = out.a
          /\ last' = Call("Scan", a, ZeroAmount,
                          [NoArgs EXCEPT !.n = n, !.code = c, !.data = PairString(n, c)], out)
          /\ UNCHANGED <<Registry, walk, threads, contexts>>

\* a.Scan(input), the input being what a.Value() returned or another string.
DoScanString ==
  /\ Idle
  /\ \E input \in ScanRawInputs \cup {Value(a).ret} :
       LET out == Scan(a, input)
       IN /\ a' = out.a
          /\ last' = Call("Scan", a, ZeroAmount, [NoArgs EXCEPT !.data = input], out)
          /\ UNCHANGED <<Registry, walk, threads, contexts>>

NextCodec ==
  \/ DoNewAmountCodec
  \/ DoRegisterCodec
  \/ DoMarshalBinary
  \/ DoUnmarshalBinary
  \/ DoValue
  \/ DoScan
  \/ DoScanString
  \/ Return

SpecCodec == Init /\ [][NextCodec]_vars

\* ------------------------------------------------------------------------
\* Minor (minor.go): an Amount counted in minor units
\* ------------------------------------------------------------------------

\* big.NewInt(0).SetString(n, 10): an optional sign and one or more decimal
\* digits.
BigIntSetString(n) ==
  LET signed == Len(n) > 0 /\ n[1] \in {"-", "+"}
      body == IF signed THEN Tail(n) ELSE n
  IN IF Len(body) = 0 \/ ~AllDigits(body)
     THEN [ok |-> FALSE, neg |-> FALSE, abs |-> <<0>>]
     ELSE LET abs == Norm([i \in 1..Len(body) |-> DigitOf(body[i])])
          IN [ok |-> TRUE, neg |-> (n[1] = "-" /\ ~BigIsZero(abs)), abs |-> abs]

\* apd.NewWithBigInt(coeff, exponent): the sign goes to Negative and the
\* coefficient keeps the magnitude.
NewWithBigInt(num, exponent) == Dec("Finite", num.neg, num.abs, exponent)

NewMinor(n, currencyCode) ==
  LET num == BigIntSetString(n)
      d == GetDigits(currencyCode).digits
  IN IF ~num.ok THEN Out(ZeroAmount, ZeroAmount, ZeroAmount, InvalidNumberError(n), 0)
     ELSE IF currencyCode = EmptyCode \/ ~IsValid(currencyCode)
     THEN Out(ZeroAmount, ZeroAmount, ZeroAmount, InvalidCurrencyCodeError(currencyCode), 0)
     ELSE Out(ZeroAmount, ZeroAmount, Amt(NewWithBigInt(num, 0 - d), currencyCode), NilError, 0)

\* A variant of Minor.Number that writes the sign in front of the
\* coefficient.
MinorNumberSigned(m) ==
  (IF m.number.Negative THEN <<"-">> ELSE <<>>) \o DigitString(m.number.Coeff)

\* Minor.Number: the coefficient as a string. The coefficient of an
\* apd.Decimal is a magnitude, the sign being kept in Negative.
MinorNumber(m) == DigitString(m.number.Coeff)

MinorMarshalBinary(m) ==
  Out(m, ZeroAmount, ZeroAmount, NilError, m.currencyCode \o MinorNumber(m))

MinorUnmarshalBinary(m, data) ==
  IF Len(data) < 3
  THEN Out(m, ZeroAmount, ZeroAmount, InvalidCurrencyCodeError(data), 0)
  ELSE LET n == NewMinor(SubSeq(data, 4, Len(data)), SubSeq(data, 1, 3))
       IN IF n.err # NilError THEN Out(m, ZeroAmount, ZeroAmount, n.err, 0)
          ELSE Out(n.val, ZeroAmount, ZeroAmount, NilError, 0)

\* encoding/json on a struct of two string fields. The writer emits
\* {"k1":"v1","k2":"v2"}; no value here holds a character that is escaped.
JSONQuote == "\""
JSONString(s) == <<JSONQuote>> \o s \o <<JSONQuote>>
JSONObject(k1, v1, k2, v2) ==
  <<"{">> \o JSONString(k1) \o <<":">> \o JSONString(v1) \o <<",">>
          \o JSONString(k2) \o <<":">> \o JSONString(v2) \o <<"}">>

HasPrefix(s, p) == Len(s) >= Len(p) /\ SubSeq(s, 1, Len(p)) = p
\* The place of the first quote in s, or 0.
IndexQuote(s) ==
  IF \E i \in 1..Len(s) : s[i] = JSONQuote
  THEN SetMin({i \in 1..Len(s) : s[i] = JSONQuote})
  ELSE 0

JSONError == [kind |-> "json error"]
JSONNull == <<"n", "u", "l", "l">>
JSONEmptyObject == <<"{", "}">>

\* The reader, for the texts of this model: the object as the writer emits
\* it, null and {} (both leave the two fields empty); any other text is an
\* error of encoding/json.
JSONUnmarshal(data, k1, k2) ==
  LET p1 == <<"{">> \o JSONString(k1) \o <<":", JSONQuote>>
      r1 == SubSeq(data, Len(p1) + 1, Len(data))
      i1 == IndexQuote(r1)
      v1 == SubSeq(r1, 1, i1 - 1)
      r2 == SubSeq(r1, i1 + 1, Len(r1))
      p2 == <<",">> \o JSONString(k2) \o <<":", JSONQuote>>
      r3 == SubSeq(r2, Len(p2) + 1, Len(r2))
      i3 == IndexQuote(r3)
      v2 == SubSeq(r3, 1, i3 - 1)
      r4 == SubSeq(r3, i3 + 1, Len(r3))
  IN IF data \in {JSONNull, JSONEmptyObject} THEN [ok |-> TRUE, v1 |-> <<>>, v2 |-> <<>>]
     ELSE IF HasPrefix(data, p1) /\ i1 > 0 /\ HasPrefix(r2, p2) /\ i3 > 0 /\ r4 = <<"}">>
     THEN [ok |-> TRUE, v1 |-> v1, v2 |-> v2]
     ELSE [ok |-> FALSE, v1 |-> <<>>, v2 |-> <<>>]

AmountKey == <<"a", "m", "o", "u", "n", "t">>
CurrencyKey == <<"c", "u", "r", "r", "e", "n", "c", "y">>

MinorMarshalJSON(m) ==
  Out(m, ZeroAmount, ZeroAmount, NilError,
      JSONObject(AmountKey, MinorNumber(m), CurrencyKey, m.currencyCode))

MinorUnmarshalJSON(m, data) ==
  LET aux == JSONUnmarshal(data, AmountKey, CurrencyKey)
      n == NewMinor(aux.v1, aux.v2)
  IN IF ~aux.ok THEN Out(m, ZeroAmount, ZeroAmount, JSONError, 0)
     ELSE IF n.err # NilError THEN Out(m, ZeroAmount, ZeroAmount, n.err, 0)
     ELSE Out(n.val, ZeroAmount, ZeroAmount, NilError, 0)

\* A caller that creates Minors, also in a currency registered at run time,
\* and encodes and decodes them.
S_1 == <<"1">>
S_100000 == <<"1", "0", "0", "0", "0", "0">>
S_3000001 == <<"3", "0", "0", "0", "0", "0", "1">>
S_Neg100 == <<"-", "1", "0", "0">>
S_Plus5 == <<"+", "5">>
S_10_99 == <<"1", "0", ".", "9", "9">>
MinorNumbers ==
  {S_0, S_Neg0, S_1, S_Neg1, S_Plus5, S_Neg100, S_100000, S_3000001, S_Big24,
   S_10_99, S_NaN, S_Empty}
MinorCodes == {USD, JPY, DOGE, LowerUSD, EmptyCode}

\* Texts given to UnmarshalJSON that no MarshalJSON wrote.
JSONRawInputs ==
  {<<>>, JSONNull, JSONEmptyObject, <<"{">>,
   JSONObject(AmountKey, S_10_99, CurrencyKey, USD),
   JSONObject(AmountKey, S_Neg100, CurrencyKey, USD),
   JSONObject(AmountKey, S_1, CurrencyKey, LowerUSD),
   JSONObject(CurrencyKey, USD, AmountKey, S_1)}

\* m, err := NewMinor(n, code)
DoNewMinor ==
  /\ Idle
  /\ \E n \in MinorNumbers, c \in MinorCodes :
       LET out == NewMinor(n, c)
       IN /\ a' = out.val
          /\ last' = Call("NewMinor", ZeroAmount, ZeroAmount,
                          [NoArgs EXCEPT !.n = n, !.code = c], out)
          /\ UNCHANGED <<Registry, walk, threads, contexts>>

DoMinorMarshalBinary ==
  /\ Idle
  /\ LET out == MinorMarshalBinary(a)
     IN /\ a' = out.a
        /\ last' = Call("Minor.MarshalBinary", a, ZeroAmount, NoArgs, out)
        /\ UNCHANGED <<Registry, walk, threads, contexts>>

\* m.UnmarshalBinary(data), the data being what m.MarshalBinary() returned
\* or other bytes.
DoMinorUnmarshalBinary ==
  /\ Idle
  /\ \E data \in BinaryInputs \cup {MinorMarshalBinary(a).ret} :
       LET out == MinorUnmarshalBinary(a, data)
       IN /\ a' = out.a
          /\ last' = Call("Minor.UnmarshalBinary", a, ZeroAmount,
                          [NoArgs EXCEPT !.data = data], out)
          /\ UNCHANGED <<Registry, walk, threads, contexts>>

DoMinorMarshalJSON ==
  /\ Idle
  /\ LET out == MinorMarshalJSON(a)
     IN /\ a' = out.a
        /\ last' = Call("Minor.MarshalJSON", a, ZeroAmount, NoArgs, out)
        /\ UNCHANGED <<Registry, walk, threads, contexts>>

\* m.UnmarshalJSON(data), the data being what m.MarshalJSON() returned or
\* another text.
DoMinorUnmarshalJSON ==
  /\ Idle
  /\ \E data \in JSONRawInputs \cup {MinorMarshalJSON(a).ret} :
       LET out == MinorUnmarshalJSON(a, data)
       IN /\ a' = out.a
          /\ last' = Call("Minor.UnmarshalJSON", a, ZeroAmount,
                          [NoArgs EXCEPT !.data = data], out)
          /\ UNCHANGED <<Registry, walk, threads, contexts>>

NextMinor ==
  \/ DoNewMinor
  \/ DoRegisterCodec
  \/ DoMinorMarshalBinary
  \/ DoMinorUnmarshalBinary
  \/ DoMinorMarshalJSON
  \/ DoMinorUnmarshalJSON
  \/ Return

SpecMinor == Init /\ [][NextMinor]_vars

\* ------------------------------------------------------------------------
\* Amounts from and to integers of minor units
\* ------------------------------------------------------------------------

\* A big.Int or an int64 is a sign and a magnitude; the nil *big.Int has no
\* magnitude.
IntOf(neg, mag) == [neg |-> neg, mag |-> mag]
NilBigInt == IntOf(FALSE, <<>>)

NewAmountFromBigInt(n, currencyCode) ==
  LET d == GetDigits(currencyCode)
  IN IF n = NilBigInt
     THEN Out(ZeroAmount, ZeroAmount, ZeroAmount, InvalidNumberError(<<"n", "i", "l">>), 0)
     ELSE IF ~d.ok
     THEN Out(ZeroAmount, ZeroAmount, ZeroAmount, InvalidCurrencyCodeError(currencyCode), 0)
     ELSE Out(ZeroAmount, ZeroAmount,
              Amt(Dec("Finite", n.neg, n.mag, 0 - d.digits), currencyCode), NilError, 0)

\* number.SetFinite(n, -d): Negative is n < 0 and the coefficient is |n|.
NewAmountFromInt64(n, currencyCode) ==
  LET d == GetDigits(currencyCode)
  IN IF ~d.ok
     THEN Out(ZeroAmount, ZeroAmount, ZeroAmount, InvalidCurrencyCodeError(currencyCode), 0)
     ELSE Out(ZeroAmount, ZeroAmount,
              Amt(Dec("Finite", n.neg, n.mag, 0 - d.digits), currencyCode), NilError, 0)

\* Integers given to the two constructors: zero, small ones of either sign,
\* the ends of int64.
Int64Inputs ==
  {IntOf(FALSE, <<0>>), IntOf(FALSE, <<5>>), IntOf(TRUE, <<5>>), IntOf(FALSE, <<2, 0, 9, 9>>),
   IntOf(TRUE, <<2, 0, 9, 9>>), IntOf(FALSE, MaxInt64), IntOf(TRUE, MinInt64Magnitude)}
BigIntInputs ==
  Int64Inputs \cup {NilBigInt, IntOf(FALSE, MinInt64Magnitude), IntOf(TRUE, MaxInt64 \o <<0>>)}
IntCodes == {USD, JPY, EUR, LowerUSD, EmptyCode}
IntAmountNumbers == {S_0_001, S_3_5, S_20_99, S_12_345, S_Neg12_335, S_9_995, S_Big24}

DoNewAmountFromBigInt ==
  /\ Idle
  /\ \E n \in BigIntInputs, c \in IntCodes :
       LET out == NewAmountFromBigInt(n, c)
       IN /\ a' = out.val
          /\ last' = Call("NewAmountFromBigInt", ZeroAmount, ZeroAmount,
                          [NoArgs EXCEPT !.n = n, !.code = c], out)
          /\ UNCHANGED <<Registry, walk, threads, contexts>>

DoNewAmountFromInt64 ==
  /\ Idle
  /\ \E n \in Int64Inputs, c \in IntCodes :
       LET out == NewAmountFromInt64(n, c)
       IN /\ a' = out.val
          /\ last' = Call("NewAmountFromInt64", ZeroAmount, ZeroAmount,
                          [NoArgs EXCEPT !.n = n, !.code = c], out)
          /\ UNCHANGED <<Registry, walk, threads, contexts>>

DoNewAmountInt ==
  /\ Idle
  /\ \E n \in IntAmountNumbers, c \in {USD, JPY} :
       LET out == NewAmount(n, c)
       IN /\ a' = out.val
          /\ last' = Call("NewAmount", ZeroAmount, ZeroAmount,
                          [NoArgs EXCEPT !.n = n, !.code = c], out)
          /\ UNCHANGED <<Registry, walk, threads, contexts>>

NextInt ==
  \/ DoNewAmountFromBigInt
  \/ DoNewAmountFromInt64
  \/ DoNewAmountInt
  \/ DoBigInt
  \/ DoInt64
  \/ Return

SpecInt == Init /\ [][NextInt]_vars

\* ------------------------------------------------------------------------
\* The registry: a caller that registers currencies with their symbols and
\* looks currencies up
\* ------------------------------------------------------------------------

\* Ten identifiers in the order a caller wrote them, and in ascending order.
TenLocales ==
  <<ID_uk, ID_fr, <<"d", "e">>, ID_es, <<"i", "t">>, <<"p", "l">>, <<"p", "t">>,
    <<"n", "l">>, <<"s", "v">>, <<"d", "a">>>>
TenSortedLocales ==
  <<<<"d", "a">>, <<"d", "e">>, ID_es, ID_fr, <<"i", "t">>, <<"n", "l">>, <<"p", "l">>,
    <<"p", "t">>, <<"s", "v">>, ID_uk>>

SymbolData(symbol, locales) == [Symbol |-> symbol, Locales |-> locales]

RegistryCodes == {ETH, DOGE, USD, EmptyCode}
RegistryOptions ==
  {[NumericCode |-> "1000", Digits |-> 8, SymbolData |-> <<>>],
   [NumericCode |-> "", Digits |-> 0,
    SymbolData |-> <<SymbolData(<<"B">>, <<ID_en>>), SymbolData(<<"B", "T", "C">>, <<ID_uk>>)>>],
   [NumericCode |-> "840", Digits |-> DefaultDigits,
    SymbolData |-> <<SymbolData(<<"D">>, <<ID_en>>),
                     SymbolData(<<"D", "1">>, <<ID_es_419, ID_fr>>),
                     SymbolData(<<"D", "2">>, <<ID_fr, ID_sr_Latn>>)>>],
   [NumericCode |-> "1001", Digits |-> 2,
    SymbolData |-> <<SymbolData(<<"X">>, <<ID_en>>), SymbolData(<<"X", "1">>, TenLocales)>>],
   [NumericCode |-> "1002", Digits |-> 2,
    SymbolData |-> <<SymbolData(<<"Y">>, <<ID_en>>), SymbolData(<<"Y", "1">>, TenSortedLocales)>>]}

DoRegisterCurrencyOf ==
  /\ Idle
  /\ \E c \in RegistryCodes, o \in RegistryOptions :
       LET reg == RegisterCurrency(c, o)
       IN /\ currencies' = reg.currencies
          /\ currencyCodes' = reg.currencyCodes
          /\ currencySymbols' = reg.currencySymbols
          /\ last' = Call("RegisterCurrency", a, ZeroAmount, [NoArgs EXCEPT !.code = c, !.opts = o],
                          Out(a, ZeroAmount, ZeroAmount, reg.err, 0))
          /\ UNCHANGED <<a, walk, threads, contexts>>

\* IsValid(code), GetDigits(code) and GetNumericCode(code)
DoLookup ==
  /\ Idle
  /\ \E c \in RegistryCodes \cup {LowerUSD} :
       /\ last' = Call("Lookup", a, ZeroAmount, [NoArgs EXCEPT !.code = c],
                       Out(a, ZeroAmount, ZeroAmount, NilError,
                           [valid |-> IsValid(c), digits |-> GetDigits(c),
                            numericCode |-> GetNumericCode(c)]))
       /\ UNCHANGED <<Registry, a, walk, threads, contexts>>

\* Identifiers of the locales given to GetSymbol.
SymbolLocaleIds ==
  {<<>>, ID_en, ID_en_US, ID_uk, ID_fr, <<"f", "r", "-", "C", "A">>, ID_es_AR,
   ID_sr_Latn_RS, <<"d", "a">>, <<"-", "U", "S">>}

\* GetSymbol(code, NewLocale(id))
DoGetSymbol ==
  /\ Idle
  /\ \E c \in RegistryCodes \cup {LowerUSD, JPY}, id \in SymbolLocaleIds :
       /\ last' = Call("GetSymbol", a, ZeroAmount, [NoArgs EXCEPT !.code = c, !.data = id],
                       Out(a, ZeroAmount, ZeroAmount, NilError, GetSymbol(c, NewLocale(id))))
       /\ UNCHANGED <<Registry, a, walk, threads, contexts>>

NextRegistry ==
  \/ DoRegisterCurrencyOf
  \/ DoLookup
  \/ DoGetSymbol
  \/ Return

SpecRegistry == Init /\ [][NextRegistry]_vars

\* ------------------------------------------------------------------------
\* Locales: a caller that parses and writes locales and walks up their
\* parents, by itself and inside GetSymbol and getFormat
\* ------------------------------------------------------------------------

\* Characters outside ASCII, each one character of a string here.
CurrencySign == "U+00A4"
NBSP == "U+00A0"
NarrowNBSP == "U+202F"
LRM == "U+200E"
RLM == "U+200F"
ArabicLetterMark == "U+061C"
ArabicDecimal == "U+066B"
ArabicThousands == "U+066C"
RightQuote == "U+2019"

ID_hi == <<"h", "i">>
ID_ar == <<"a", "r">>
ID_de_CH == <<"d", "e", "-", "C", "H">>

\* The pieces of the patterns: the number, and the currency before or behind
\* it.
P_Number == <<"0", ".", "0", "0">>
P_Before == <<CurrencySign>> \o P_Number
P_Behind == P_Number \o <<NBSP, CurrencySign>>
P_BeforeBoth == P_Before \o <<";", "(">> \o P_Before \o <<")">>
P_BehindBoth == P_Behind \o <<";", "(">> \o P_Behind \o <<")">>

currencyFormat(locale, standardPattern, accountingPattern, numberingSystem, minGroupingDigits,
               primaryGroupingSize, secondaryGroupingSize, decimalSeparator,
               groupingSeparator, plusSign, minusSign) ==
  [locale |-> locale, standardPattern |-> standardPattern,
   accountingPattern |-> accountingPattern, numberingSystem |-> numberingSystem,
   minGroupingDigits |-> minGroupingDigits, primaryGroupingSize |-> primaryGroupingSize,
   secondaryGroupingSize |-> secondaryGroupingSize, decimalSeparator |-> decimalSeparator,
   groupingSeparator |-> groupingSeparator, plusSign |-> plusSign, minusSign |-> minusSign]

\* The table of the number formats, a format being named by its locale: some
\* of its rows. currencyFormat{} has no name.
currencyFormats ==
  [id \in {ID_en, ID_es, ID_es_419, ID_fr, ID_sr, ID_uk, ID_hi, ID_ar, ID_de_CH} |->
     CASE id = ID_en ->
            currencyFormat(id, P_Before, P_BeforeBoth, "latn", 1, 3, 3,
                           <<".">>, <<",">>, <<"+">>, <<"-">>)
       [] id = ID_es ->
            currencyFormat(id, P_Behind, <<>>, "latn", 2, 3, 3,
                           <<",">>, <<".">>, <<"+">>, <<"-">>)
       [] id = ID_es_419 ->
            currencyFormat(id, P_Before, <<>>, "latn", 2, 3, 3,
                           <<".">>, <<",">>, <<"+">>, <<"-">>)
       [] id = ID_fr ->
            currencyFormat(id, P_Behind, P_BehindBoth, "latn", 1, 3, 3,
                           <<",">>, <<NarrowNBSP>>, <<"+">>, <<"-">>)
       [] id = ID_sr ->
            currencyFormat(id, P_Behind, P_BehindBoth, "latn", 1, 3, 3,
                           <<",">>, <<".">>, <<"+">>, <<"-">>)
       [] id = ID_uk ->
            currencyFormat(id, P_Behind, <<>>, "latn", 1, 3, 3,
                           <<",">>, <<NBSP>>, <<"+">>, <<"-">>)
       [] id = ID_hi ->
            currencyFormat(id, P_Before, <<>>, "latn", 1, 3, 2,
                           <<".">>, <<",">>, <<"+">>, <<"-">>)
       [] id = ID_ar ->
            currencyFormat(id, <<RLM>> \o P_Behind, <<>>, "arab", 1, 3, 3,
                           <<ArabicDecimal>>, <<ArabicThousands>>,
                           <<ArabicLetterMark, "+">>, <<ArabicLetterMark, "-">>)
       [] id = ID_de_CH ->
            currencyFormat(id, <<CurrencySign, NBSP>> \o P_Number \o <<";", CurrencySign, "-">>
                                 \o P_Number,
                           <<>>, "latn", 1, 3, 3,
                           <<".">>, <<RightQuote>>, <<"+">>, <<"-">>)]
ZeroFormat == currencyFormat(<<>>, <<>>, <<>>, "latn", 0, 0, 0, <<>>, <<>>, <<>>, <<>>)

\* Identifiers given to NewLocale.
LocaleIds ==
  {<<>>, ID_en, ID_en_US, ID_en_AT, ID_es_AR, ID_sr_Latn_RS, <<"d", "e">>,
   <<"S", "R", "_", "r", "s", "_", "L", "A", "T", "N">>,
   <<"c", "a", "-", "E", "S", "-", "V", "A", "L", "E", "N", "C", "I", "A">>,
   <<" ", "d", "e", "-", "C", "H", "\t">>,
   <<"s", "r", "-", "C", "y", "r", "l", "-", "L", "a", "t", "n", "-", "R", "S", "-", "M", "E">>,
   <<"-", "U", "S">>,
   <<"d", "e", " ", "-">>,
   <<"d", "e", "-", " ", "c", "h">>}

\* Locales written as struct literals.
LiteralLocales ==
  {Locale(lang, script, territory) :
     lang \in {<<>>, ID_en, ID_sr}, script \in {<<>>, <<"L", "a", "t", "n">>},
     territory \in {<<>>, <<"U", "S">>, <<"R", "S">>}}

WalkCodes == {USD, JPY, LowerUSD}

NoLoop == walk.pc = "none"

\* l := NewLocale(id), the id being given or what l.String() returns.
DoNewLocale ==
  /\ Idle /\ NoLoop
  /\ \E id \in LocaleIds \cup {String(walk.l)} :
       /\ walk' = [NoWalk EXCEPT !.l = NewLocale(id), !.parsed = TRUE]
       /\ last' = Call("NewLocale", a, ZeroAmount,
                       [NoArgs EXCEPT !.data = id, !.opts = [l |-> walk.l, parsed |-> walk.parsed]],
                       Out(a, ZeroAmount, ZeroAmount, NilError, NewLocale(id)))
       /\ UNCHANGED <<Registry, a, threads, contexts>>

\* l := Locale{Language: ..., Script: ..., Territory: ...}
DoLocaleLiteral ==
  /\ Idle /\ NoLoop
  /\ \E l \in LiteralLocales : walk' = [NoWalk EXCEPT !.l = l, !.parsed = FALSE]
  /\ UNCHANGED <<Registry, a, last, threads, contexts>>

\* l.String()
DoString ==
  /\ Idle /\ NoLoop
  /\ last' = Call("String", a, ZeroAmount,
                  [NoArgs EXCEPT !.opts = [l |-> walk.l, parsed |-> walk.parsed]],
                  Out(a, ZeroAmount, ZeroAmount, NilError, String(walk.l)))
  /\ UNCHANGED <<Registry, a, walk, threads, contexts>>

\* for p := l; !p.IsEmpty(); p = p.GetParent() {}
StartParents ==
  /\ Idle /\ NoLoop
  /\ walk' = [walk EXCEPT !.pc = "loop", !.loop = "GetParent", !.locale = walk.l, !.seen = <<>>]
  /\ UNCHANGED <<Registry, a, last, threads, contexts>>

StepParents ==
  /\ walk.pc = "loop" /\ walk.loop = "GetParent"
  /\ IF IsEmpty(walk.locale)
     THEN walk' = [walk EXCEPT !.pc = "none"]
     ELSE walk' = [walk EXCEPT !.locale = GetParent(walk.locale),
                               !.seen = Append(walk.seen, walk.locale)]
  /\ UNCHANGED <<Registry, a, last, threads, contexts>>

\* GetSymbol(code, l) up to its loop.
StartGetSymbol ==
  /\ Idle /\ NoLoop
  /\ \E code \in WalkCodes :
       LET early == code = EmptyCode \/ ~IsValid(code) \/ code \notin DOMAIN currencySymbols
                      \/ walk.l = Locale(ID_en, <<>>, <<>>)
                      \/ walk.l = Locale(ID_en, <<>>, <<"U", "S">>) \/ IsEmpty(walk.l)
       IN IF early
          THEN /\ last' = Call("GetSymbol", a, ZeroAmount,
                               [NoArgs EXCEPT !.code = code, !.opts = [l |-> walk.l]],
                               Out(a, ZeroAmount, ZeroAmount, NilError, GetSymbol(code, walk.l)))
               /\ UNCHANGED walk
          ELSE /\ walk' = [walk EXCEPT !.pc = "loop", !.loop = "GetSymbol", !.locale = walk.l,
                                       !.seen = <<>>, !.code = code]
               /\ UNCHANGED last
  /\ UNCHANGED <<Registry, a, threads, contexts>>

\* One turn of the loop of GetSymbol.
StepGetSymbol ==
  /\ walk.pc = "loop" /\ walk.loop = "GetSymbol"
  /\ LET symbol == ScanSymbols(currencySymbols[walk.code], String(walk.locale))
         parent == GetParent(walk.locale)
         result == Call("GetSymbol", a, ZeroAmount,
                        [NoArgs EXCEPT !.code = walk.code, !.opts = [l |-> walk.l]],
                        Out(a, ZeroAmount, ZeroAmount, NilError, [symbol |-> symbol, ok |-> TRUE]))
     IN IF symbol # <<>>
        THEN /\ walk' = [walk EXCEPT !.pc = "none", !.seen = Append(walk.seen, walk.locale)]
             /\ last' = result
        ELSE IF IsEmpty(parent)
        THEN /\ walk' = [walk EXCEPT !.pc = "none", !.locale = parent,
                                     !.seen = Append(walk.seen, walk.locale)]
             /\ last' = result
        ELSE /\ walk' = [walk EXCEPT !.locale = parent, !.seen = Append(walk.seen, walk.locale)]
             /\ UNCHANGED last
  /\ UNCHANGED <<Registry, a, threads, contexts>>

\* getFormat(l) up to its loop.
StartGetFormat ==
  /\ Idle /\ NoLoop
  /\ IF walk.l = Locale(ID_en, <<>>, <<"U", "S">>) \/ IsEmpty(walk.l)
     THEN /\ last' = Call("getFormat", a, ZeroAmount, [NoArgs EXCEPT !.opts = [l |-> walk.l]],
                          Out(a, ZeroAmount, ZeroAmount, NilError, currencyFormats[ID_en]))
          /\ UNCHANGED walk
     ELSE /\ walk' = [walk EXCEPT !.pc = "loop", !.loop = "getFormat", !.locale = walk.l,
                                  !.seen = <<>>]
          /\ UNCHANGED last
  /\ UNCHANGED <<Registry, a, threads, contexts>>

\* One turn of the loop of getFormat.
StepGetFormat ==
  /\ walk.pc = "loop" /\ walk.loop = "getFormat"
  /\ LET localeID == String(walk.locale)
         parent == GetParent(walk.locale)
         found == localeID \in DOMAIN currencyFormats
         result(format) ==
           Call("getFormat", a, ZeroAmount, [NoArgs EXCEPT !.opts = [l |-> walk.l]],
                Out(a, ZeroAmount, ZeroAmount, NilError, format))
     IN IF found
        THEN /\ walk' = [walk EXCEPT !.pc = "none", !.seen = Append(walk.seen, walk.locale)]
             /\ last' = result(currencyFormats[localeID])
        ELSE IF IsEmpty(parent)
        THEN /\ walk' = [walk EXCEPT !.pc = "none", !.locale = parent,
                                     !.seen = Append(walk.seen, walk.locale)]
             /\ last' = result(ZeroFormat)
        ELSE /\ walk' = [walk EXCEPT !.locale = parent, !.seen = Append(walk.seen, walk.locale)]
             /\ UNCHANGED last
  /\ UNCHANGED <<Registry, a, threads, contexts>>

NextLocale ==
  \/ DoNewLocale
  \/ DoLocaleLiteral
  \/ DoString
  \/ StartParents
  \/ StepParents
  \/ StartGetSymbol
  \/ StepGetSymbol
  \/ StartGetFormat
  \/ StepGetFormat
  \/ Return

SpecLocale == Init /\ [][NextLocale]_vars

\* ------------------------------------------------------------------------
\* The state machine: Add and Sub around the coefficient threshold
\* ------------------------------------------------------------------------

\* 10^-10: with 2^31 - 1 the sum has 20 significant digits.
S_1Em10 == <<"0", ".", "0", "0", "0", "0", "0", "0", "0", "0", "0", "1">>

PrecisionNumbers == {S_0, S_3_50, S_Neg12_335, S_MaxInt32, S_TwoPow31, S_1Em10, S_Big24}
PrecisionCodes == {USD, JPY}
PrecisionAmounts ==
  {ZeroAmount} \cup {NewAmount(n, c).val : n \in PrecisionNumbers, c \in PrecisionCodes}

\* a, err := NewAmount(n, code)
DoNewAmountPrecision ==
  /\ Idle
  /\ \E n \in PrecisionNumbers, c \in PrecisionCodes :
       LET out == NewAmount(n, c)
       IN /\ a' = out.val
          /\ last' = Call("NewAmount", ZeroAmount, ZeroAmount,
                          [NoArgs EXCEPT !.n = n, !.code = c], out)
          /\ UNCHANGED <<Registry, walk, threads, contexts>>

\* sum, err := a.Add(b)
DoAddPrecision ==
  /\ Idle
  /\ \E b \in PrecisionAmounts :
       LET out == Add(a, b)
       IN /\ a' = out.a
          /\ last' = Call("Add", a, b, NoArgs, out)
          /\ UNCHANGED <<Registry, walk, threads, contexts>>

\* difference, err := a.Sub(b)
DoSubPrecision ==
  /\ Idle
  /\ \E b \in PrecisionAmounts :
       LET out == Sub(a, b)
       IN /\ a' = out.a
          /\ last' = Call("Sub", a, b, NoArgs, out)
          /\ UNCHANGED <<Registry, walk, threads, contexts>>

NextPrecision ==
  \/ DoNewAmountPrecision
  \/ DoAddPrecision
  \/ DoSubPrecision
  \/ Return

SpecPrecision == Init /\ [][NextPrecision]_vars

\* ------------------------------------------------------------------------
\* The state machine: a caller that decodes into an Amount it holds
\* ------------------------------------------------------------------------

NumberKey == <<"n", "u", "m", "b", "e", "r">>

MarshalJSON(x) ==
  Out(x, ZeroAmount, ZeroAmount, NilError,
      JSONObject(NumberKey, Number(x), CurrencyKey, x.currencyCode))

\* UnmarshalJSON (pointer receiver): x is the Amount written to.
UnmarshalJSON(x, data) ==
  LET aux == JSONUnmarshal(data, NumberKey, CurrencyKey)
      number == SetString(aux.v1)
  IN IF ~aux.ok THEN Out(x, ZeroAmount, ZeroAmount, JSONError, 0)
     ELSE IF ~number.ok THEN Out(x, ZeroAmount, ZeroAmount, InvalidNumberError(aux.v1), 0)
     ELSE IF aux.v2 = EmptyCode \/ ~IsValid(aux.v2)
     THEN Out(x, ZeroAmount, ZeroAmount, InvalidCurrencyCodeError(aux.v2), 0)
     ELSE Out(Amt(number.d, aux.v2), ZeroAmount, ZeroAmount, NilError, 0)

\* Texts given to UnmarshalJSON that no MarshalJSON wrote.
AmountJSONInputs ==
  {<<>>, JSONNull, JSONEmptyObject, <<"{">>,
   JSONObject(NumberKey, S_3_50, CurrencyKey, USD),
   JSONObject(NumberKey, S_Invalid, CurrencyKey, USD),
   JSONObject(NumberKey, S_0, CurrencyKey, LowerUSD),
   JSONObject(NumberKey, S_0, CurrencyKey, EmptyCode),
   JSONObject(CurrencyKey, USD, NumberKey, S_0)}

DoMarshalJSON ==
  /\ Idle
  /\ LET out == MarshalJSON(a)
     IN /\ a' = out.a
        /\ last' = Call("MarshalJSON", a, ZeroAmount, NoArgs, out)
        /\ UNCHANGED <<Registry, walk, threads, contexts>>

\* a.UnmarshalJSON(data), the data being what a.MarshalJSON() returned or
\* another text.
DoUnmarshalJSON ==
  /\ Idle
  /\ \E data \in AmountJSONInputs \cup {MarshalJSON(a).ret} :
       LET out == UnmarshalJSON(a, data)
       IN /\ a' = out.a
          /\ last' = Call("UnmarshalJSON", a, ZeroAmount, [NoArgs EXCEPT !.data = data], out)
          /\ UNCHANGED <<Registry, walk, threads, contexts>>

NextDecode ==
  \/ DoNewAmountCodec
  \/ DoUnmarshalBinary
  \/ DoMarshalJSON
  \/ DoUnmarshalJSON
  \/ DoScan
  \/ DoScanString
  \/ Return

SpecDecode == Init /\ [][NextDecode]_vars

\* ------------------------------------------------------------------------
\* The state machine: RegisterCurrency calls and a reader on three threads
\* ------------------------------------------------------------------------
\* RegisterCurrency takes no lock. Each thread runs it one statement at a
\* time: the two tests, the write to the currencies map, the append to
\* currencyCodes (the read of the slice and the write of the longer one), and
\* the writes to currencySymbols.

Registrars == {"t1", "t2"}
Reader == "t3"

Running(t) == threads[t].pc \notin {"idle", "done", "fatal"}

ConcurrentCodes == {ETH, USD}
ConcurrentOptions ==
  {[NumericCode |-> "1000", Digits |-> 8, SymbolData |-> <<>>],
   [NumericCode |-> "", Digits |-> 0, SymbolData |-> <<SymbolData(<<"B">>, <<ID_en>>)>>]}

\* go RegisterCurrency(code, opts)
StartRegister(t) ==
  /\ threads[t].pc = "idle"
  /\ \E c \in ConcurrentCodes, o \in ConcurrentOptions :
       threads' =
         [u \in ThreadIds |->
            IF u = t
            THEN [NoThread EXCEPT !.pc = "check", !.op = "RegisterCurrency", !.code = c,
                                  !.opts = o,
                                  !.fresh = (c # EmptyCode /\ c \notin DOMAIN currencies),
                                  !.overlap = {v \in ThreadIds \ {t} : Running(v)}]
            ELSE IF Running(u) THEN [threads[u] EXCEPT !.overlap = @ \cup {t}]
            ELSE threads[u]]
  /\ UNCHANGED <<Registry, a, last, walk, contexts>>

\* if code == "" ...; if _, isoExists := currencies[code]; isoExists ...
RegisterCheck(t) ==
  /\ threads[t].pc = "check"
  /\ LET code == threads[t].code
     IN threads' =
          [threads EXCEPT ![t] =
             IF code = EmptyCode THEN [@ EXCEPT !.pc = "done", !.err = EmptyCurrencyCodeError]
             ELSE IF code \in DOMAIN currencies
             THEN [@ EXCEPT !.pc = "done", !.err = CurrencyAlreadyExistsError(code)]
             ELSE [@ EXCEPT !.pc = "insert"]]
  /\ UNCHANGED <<Registry, a, last, walk, contexts>>

\* currencies[code] = currencyInfo{...}
RegisterInsert(t) ==
  /\ threads[t].pc = "insert"
  /\ LET code == threads[t].code
         opts == threads[t].opts
     IN currencies' =
          [c \in DOMAIN currencies \cup {code} |->
             IF c = code THEN [numericCode |-> opts.NumericCode, digits |-> opts.Digits]
             ELSE currencies[c]]
  /\ threads' = [threads EXCEPT ![t].pc = "readCodes"]
  /\ UNCHANGED <<currencyCodes, currencySymbols, a, last, walk, contexts>>

\* Two writes to one map at the same time: the runtime may stop the program
\* with "fatal error: concurrent map writes".
ConcurrentMapWrites ==
  /\ \E t, u \in Registrars : t # u /\ threads[t].pc = "insert" /\ threads[u].pc = "insert"
  /\ threads' = [t \in ThreadIds |-> [threads[t] EXCEPT !.pc = "fatal"]]
  /\ UNCHANGED <<Registry, a, last, walk, contexts>>

\* append(currencyCodes, code): the slice is read ...
RegisterReadCodes(t) ==
  /\ threads[t].pc = "readCodes"
  /\ threads' = [threads EXCEPT ![t].pc = "appendCodes", ![t].codes = currencyCodes]
  /\ UNCHANGED <<Registry, a, last, walk, contexts>>

\* ... and currencyCodes = the slice read with the code behind it.
RegisterAppendCodes(t) ==
  /\ threads[t].pc = "appendCodes"
  /\ currencyCodes' = Append(threads[t].codes, threads[t].code)
  /\ threads' = [threads EXCEPT ![t].pc = "symbols"]
  /\ UNCHANGED <<currencies, currencySymbols, a, last, walk, contexts>>

\* if len(opts.SymbolData) > 0 { ... }; return nil
RegisterSymbols(t) ==
  /\ threads[t].pc = "symbols"
  /\ LET code == threads[t].code
         opts == threads[t].opts
     IN currencySymbols' =
          IF Len(opts.SymbolData) > 0
          THEN [c \in DOMAIN currencySymbols \cup {code} |->
                  IF c = code
                  THEN (IF code \in DOMAIN currencySymbols THEN currencySymbols[code] ELSE <<>>)
                       \o [i \in 1..Len(opts.SymbolData) |->
                             [symbol |-> opts.SymbolData[i].Symbol,
                              locales |-> opts.SymbolData[i].Locales]]
                  ELSE currencySymbols[c]]
          ELSE currencySymbols
  /\ threads' = [threads EXCEPT ![t].pc = "done", ![t].err = NilError]
  /\ UNCHANGED <<currencies, currencyCodes, a, last, walk, contexts>>

\* The reader: if IsValid(code) { GetCurrencyCodes(); GetSymbol(code, en) }
StartRead ==
  /\ threads[Reader].pc = "idle"
  /\ \E c \in ConcurrentCodes :
       threads' = [threads EXCEPT ![Reader] =
                     [NoThread EXCEPT !.pc = "isValid", !.op = "Read", !.code = c]]
  /\ UNCHANGED <<Registry, a, last, walk, contexts>>

ReadIsValid ==
  /\ threads[Reader].pc = "isValid"
  /\ threads' = [threads EXCEPT ![Reader].pc = "lists",
                                ![Reader].obs.valid = IsValid(threads[Reader].code)]
  /\ UNCHANGED <<Registry, a, last, walk, contexts>>

ReadLists ==
  /\ threads[Reader].pc = "lists"
  /\ LET code == threads[Reader].code
     IN threads' =
          [threads EXCEPT ![Reader].pc = "done",
                          ![Reader].obs.inList =
                             (\E i \in 1..Len(currencyCodes) : currencyCodes[i] = code),
                          ![Reader].obs.symbol = GetSymbol(code, Locale(ID_en, <<>>, <<>>)).ok]
  /\ UNCHANGED <<Registry, a, last, walk, contexts>>

\* The caller has looked at what the call returned.
ThreadReturn(t) ==
  /\ threads[t].pc = "done"
  /\ threads' = [threads EXCEPT ![t] = NoThread]
  /\ UNCHANGED <<Registry, a, last, walk, contexts>>

NextConcurrent ==
  \/ \E t \in Registrars : StartRegister(t)
  \/ \E t \in Registrars : RegisterCheck(t)
  \/ \E t \in Registrars : RegisterInsert(t)
  \/ ConcurrentMapWrites
  \/ \E t \in Registrars : RegisterReadCodes(t)
  \/ \E t \in Registrars : RegisterAppendCodes(t)
  \/ \E t \in Registrars : RegisterSymbols(t)
  \/ StartRead
  \/ ReadIsValid
  \/ ReadLists
  \/ \E t \in ThreadIds : ThreadReturn(t)

SpecConcurrent == Init /\ [][NextConcurrent]_vars

\* ------------------------------------------------------------------------
\* The state machine: RoundTo calls on two threads
\* ------------------------------------------------------------------------
\* Each thread runs RoundTo in two steps: roundingContext, which reads the
\* package-level contexts, and Quantize on the context it got.

Rounders == {"t1", "t2"}

\* The package-level context that decimalContext returns a pointer to.
decimalContextRef(decimals) ==
  IF \E i \in 1..Len(decimals) : BitLenOver31(decimals[i].Coeff) THEN "p39" ELSE "p19"

\* A variant of roundingContext that sets the mode on the package-level
\* context.
roundingContextShared(ctxs, decimal, mode) ==
  LET ref == decimalContextRef(<<decimal>>)
  IN IF mode = "RoundHalfUp"
     THEN [ctx |-> [ref |-> ref, private |-> ctxs[ref]], contexts |-> ctxs]
     ELSE [ctx |-> [ref |-> ref, private |-> ctxs[ref]],
           contexts |-> [ctxs EXCEPT ![ref].Rounding = mode]]

\* roundingContext, with the package-level contexts as they are when it
\* runs: the context the caller gets (a pointer to a package-level one, or a
\* private copy) and the package-level contexts afterwards.
roundingContextOn(ctxs, decimal, mode) ==
  LET ref == decimalContextRef(<<decimal>>)
  IN IF mode = "RoundHalfUp"
     THEN [ctx |-> [ref |-> ref, private |-> ctxs[ref]], contexts |-> ctxs]
     ELSE [ctx |-> [ref |-> "private", private |-> [ctxs[ref] EXCEPT !.Rounding = mode]],
           contexts |-> ctxs]

RoundingNumbers == {S_12_345, S_Neg12_335, S_9_995, S_TwoPow31}
RoundingAmounts == {NewAmount(n, USD).val : n \in RoundingNumbers}
RoundingDigits == {1, 2, DefaultDigits}

\* go a.RoundTo(digits, mode)
StartRoundTo(t) ==
  /\ threads[t].pc = "idle"
  /\ \E x \in RoundingAmounts, digits \in RoundingDigits, mode \in RoundingModes :
       threads' =
         [u \in ThreadIds |->
            IF u = t
            THEN [NoThread EXCEPT !.pc = "context", !.op = "RoundTo", !.x = x,
                                  !.digits = digits, !.mode = mode,
                                  !.overlap = {v \in ThreadIds \ {t} : Running(v)}]
            ELSE IF Running(u) THEN [threads[u] EXCEPT !.overlap = @ \cup {t}]
            ELSE threads[u]]
  /\ UNCHANGED <<Registry, a, last, walk, contexts>>

\* ctx := roundingContext(&a.number, mode)
RoundToContext(t) ==
  /\ threads[t].pc = "context"
  /\ LET r == roundingContextOn(contexts, threads[t].x.number, threads[t].mode)
     IN /\ threads' = [threads EXCEPT ![t].pc = "quantize", ![t].ctx = r.ctx]
        /\ contexts' = r.contexts
  /\ UNCHANGED <<Registry, a, last, walk>>

\* ctx.Quantize(&result, &a.number, -int32(digits)); return
RoundToQuantize(t) ==
  /\ threads[t].pc = "quantize"
  /\ LET x == threads[t].x
         dg == IF threads[t].digits = DefaultDigits THEN GetDigits(x.currencyCode).digits
               ELSE threads[t].digits
         ctx == IF threads[t].ctx.ref = "private" THEN threads[t].ctx.private
                ELSE contexts[threads[t].ctx.ref]
     IN threads' = [threads EXCEPT ![t].pc = "done",
                                   ![t].val = Amt(CtxQuantize(ctx, x.number, 0 - dg),
                                                  x.currencyCode)]
  /\ UNCHANGED <<Registry, a, last, walk, contexts>>

NextRounding ==
  \/ \E t \in Rounders : StartRoundTo(t)
  \/ \E t \in Rounders : RoundToContext(t)
  \/ \E t \in Rounders : RoundToQuantize(t)
  \/ \E t \in Rounders : ThreadReturn(t)

SpecRounding == Init /\ [][NextRounding]_vars

\* ------------------------------------------------------------------------
\* Formatter (formatter.go)
\* ------------------------------------------------------------------------

\* unicode.IsLetter, for the characters of this model.
IsLetter(c) == \E i \in 1..Len(UpperChars) : UpperChars[i] = c \/ LowerChars[i] = c

\* strings.Contains
Contains(s, sub) ==
  \E i \in 1..(Len(s) - Len(sub) + 1) : SubSeq(s, i, i + Len(sub) - 1) = sub

\* Whether old is in s at place i. The empty string is everywhere, also
\* behind the last character.
MatchAt(s, i, old) == i + Len(old) - 1 <= Len(s) /\ SubSeq(s, i, i + Len(old) - 1) = old

\* genericReplacer.lookup: of the pairs whose old string is in s at i, the one
\* that came first in the arguments; 0 when there is none. The empty old
\* string is left out right after it matched.
lookup(s, i, oldnew, ignoreRoot) ==
  LET found == {k \in 1..Len(oldnew) :
                  /\ MatchAt(s, i, oldnew[k][1])
                  /\ ~(ignoreRoot /\ oldnew[k][1] = <<>>)}
  IN IF found = {} THEN 0 ELSE SetMin(found)

\* strings.NewReplacer(oldnew...).Replace(s): the matches are taken from left
\* to right and do not overlap.
RECURSIVE ReplaceFrom(_, _, _, _, _)
ReplaceFrom(s, i, oldnew, prevMatchEmpty, written) ==
  LET k == lookup(s, i, oldnew, prevMatchEmpty)
  IN IF i > Len(s) + 1 THEN written
     ELSE IF k = 0
     THEN IF i > Len(s) THEN written
          ELSE ReplaceFrom(s, i + 1, oldnew, FALSE, written \o <<s[i]>>)
     ELSE ReplaceFrom(s, i + Len(oldnew[k][1]), oldnew, oldnew[k][1] = <<>>,
                      written \o oldnew[k][2])

Replace(s, oldnew) == ReplaceFrom(s, 1, oldnew, FALSE, <<>>)

\* var localDigits
ArabDigits ==
  <<"U+0660", "U+0661", "U+0662", "U+0663", "U+0664", "U+0665", "U+0666", "U+0667",
    "U+0668", "U+0669">>
localDigits == [n \in {"arab"} |-> ArabDigits]

\* getFormat: the format of the first locale of the chain of parents that the
\* table holds.
RECURSIVE getFormatLoop(_)
getFormatLoop(locale) ==
  LET localeID == String(locale)
  IN IF localeID \in DOMAIN currencyFormats THEN currencyFormats[localeID]
     ELSE IF IsEmpty(GetParent(locale)) THEN ZeroFormat
     ELSE getFormatLoop(GetParent(locale))

getFormat(locale) ==
  IF locale = Locale(ID_en, <<>>, <<"U", "S">>) \/ IsEmpty(locale) THEN currencyFormats[ID_en]
  ELSE getFormatLoop(locale)

NoSymbolMap == [c \in {} |-> <<>>]

\* A variant of NewFormatter whose MaxDigits is the placeholder as well.
NewFormatterMaxDefault(locale) ==
  [locale |-> locale, format |-> getFormat(locale), AccountingStyle |-> FALSE,
   AddPlusSign |-> FALSE, NoGrouping |-> FALSE, MinDigits |-> DefaultDigits,
   MaxDigits |-> DefaultDigits, RoundingMode |-> "RoundHalfUp",
   CurrencyDisplay |-> "DisplaySymbol", SymbolMap |-> NoSymbolMap]

NewFormatter(locale) ==
  [locale |-> locale, format |-> getFormat(locale), AccountingStyle |-> FALSE,
   AddPlusSign |-> FALSE, NoGrouping |-> FALSE, MinDigits |-> DefaultDigits,
   MaxDigits |-> 6, RoundingMode |-> "RoundHalfUp",
   CurrencyDisplay |-> "DisplaySymbol", SymbolMap |-> NoSymbolMap]

IsNegative(x) == DecCmp(x.number, DecZero) = -1

usesAccountingPattern(f) == f.AccountingStyle /\ f.format.accountingPattern # <<>>

\* strings.Replace(s, old, new, 1) for an old string of one character.
ReplaceFirst(s, old, new) ==
  IF \E i \in 1..Len(s) : s[i] = old
  THEN LET i == SetMin({k \in 1..Len(s) : s[k] = old})
       IN SubSeq(s, 1, i - 1) \o new \o SubSeq(s, i + 1, Len(s))
  ELSE s

getPattern(f, amount) ==
  LET patterns == IF usesAccountingPattern(f) THEN SplitBy(f.format.accountingPattern, ";")
                  ELSE SplitBy(f.format.standardPattern, ";")
  IN IF IsNegative(amount)
     THEN IF Len(patterns) = 1 THEN <<"-">> \o patterns[1] ELSE patterns[2]
     ELSE IF f.AddPlusSign
     THEN IF Len(patterns) = 1 \/ usesAccountingPattern(f) THEN <<"+">> \o patterns[1]
          ELSE ReplaceFirst(patterns[2], "-", <<"+">>)
     ELSE patterns[1]

\* The loop of groupMajorDigits: the groups in the order it appends them.
RECURSIVE groupLoop(_, _, _, _)
groupLoop(majorDigits, i, secondarySize, groups) ==
  IF i > 0
  THEN LET low == IF i - secondarySize < 0 THEN 0 ELSE i - secondarySize
       IN groupLoop(majorDigits, i - secondarySize, secondarySize,
                    Append(groups, SubSeq(majorDigits, low + 1, i)))
  ELSE groups

\* strings.Join of the groups in reverse order.
RECURSIVE JoinReversed(_, _)
JoinReversed(groups, sep) ==
  IF Len(groups) = 1 THEN groups[1]
  ELSE JoinReversed(Tail(groups), sep) \o sep \o groups[1]

\* A variant of groupMajorDigits that takes the primary size for every group.
groupMajorDigitsPrimaryOnly(f, majorDigits) ==
  LET numDigits == Len(majorDigits)
      minDigits == f.format.minGroupingDigits
      primarySize == f.format.primaryGroupingSize
  IN IF f.NoGrouping \/ primarySize = 0 THEN majorDigits
     ELSE IF numDigits < minDigits + primarySize THEN majorDigits
     ELSE JoinReversed(groupLoop(majorDigits, numDigits - primarySize, primarySize,
                                 <<SubSeq(majorDigits, numDigits - primarySize + 1, numDigits)>>),
                       f.format.groupingSeparator)

groupMajorDigits(f, majorDigits) ==
  LET numDigits == Len(majorDigits)
      minDigits == f.format.minGroupingDigits
      primarySize == f.format.primaryGroupingSize
      secondarySize == f.format.secondaryGroupingSize
  IN IF f.NoGrouping \/ primarySize = 0 THEN majorDigits
     ELSE IF numDigits < minDigits + primarySize THEN majorDigits
     ELSE JoinReversed(groupLoop(majorDigits, numDigits - primarySize, secondarySize,
                                 <<SubSeq(majorDigits, numDigits - primarySize + 1, numDigits)>>),
                       f.format.groupingSeparator)

localizeDigits(f, number) ==
  IF f.format.numberingSystem = "latn" THEN number
  ELSE Replace(number, [i \in 1..10 |->
                          <<<<DigitChars[i]>>, <<localDigits[f.format.numberingSystem][i]>>>>])

\* strings.TrimRight(s, "0")
RECURSIVE TrimRightZeros(_)
TrimRightZeros(s) ==
  IF Len(s) > 0 /\ s[Len(s)] = "0" THEN TrimRightZeros(SubSeq(s, 1, Len(s) - 1)) ELSE s

\* The digits after the decimal separator that formatNumber writes.
minorDigitsOf(numberParts, minDigits, maxDigits) ==
  LET minorDigits == IF Len(numberParts) = 2 THEN numberParts[2] ELSE <<>>
      stripped == TrimRightZeros(minorDigits)
  IN IF minDigits < maxDigits
     THEN IF Len(stripped) < minDigits
          THEN stripped \o [i \in 1..(minDigits - Len(stripped)) |-> "0"]
          ELSE stripped
     ELSE minorDigits

\* The integer and the fraction digits of formatNumber put together.
formatNumberParts(f, numberParts, minDigits, maxDigits) ==
  LET majorDigits == groupMajorDigits(f, numberParts[1])
      minorDigits == minorDigitsOf(numberParts, minDigits, maxDigits)
  IN localizeDigits(f, majorDigits
                       \o (IF minorDigits # <<>> THEN f.format.decimalSeparator \o minorDigits
                           ELSE <<>>))

\* formatNumber from the rounding on, minDigits and maxDigits being resolved.
formatNumberRounded(f, amount, minDigits, maxDigits) ==
  formatNumberParts(f, SplitBy(Number(RoundTo(amount, maxDigits, f.RoundingMode).val), "."),
                    minDigits, maxDigits)

formatNumber(f, amount) ==
  formatNumberRounded(f, amount,
                      IF f.MinDigits = DefaultDigits THEN GetDigits(amount.currencyCode).digits
                      ELSE f.MinDigits,
                      IF f.MaxDigits = DefaultDigits THEN GetDigits(amount.currencyCode).digits
                      ELSE f.MaxDigits)

formatCurrency(f, currencyCode) ==
  IF f.CurrencyDisplay = "DisplaySymbol"
  THEN IF currencyCode \in DOMAIN f.SymbolMap THEN f.SymbolMap[currencyCode]
       ELSE GetSymbol(currencyCode, f.locale).symbol
  ELSE IF f.CurrencyDisplay = "DisplayCode" THEN currencyCode
  ELSE <<>>

\* Format from the formatted number and the currency on: the space next to
\* a letter of the currency, and the replacements in the pattern.
formatPattern(f, pattern, formattedNumber, currency) ==
  LET formattedCurrency ==
        IF currency = <<>> THEN currency
        ELSE IF Contains(pattern, <<"0", CurrencySign>>)
        THEN IF IsLetter(currency[1]) THEN <<NBSP>> \o currency ELSE currency
        ELSE IF Contains(pattern, <<CurrencySign, "0">>)
        THEN IF IsLetter(currency[Len(currency)]) THEN currency \o <<NBSP>> ELSE currency
        ELSE currency
      replacements ==
        <<<<P_Number, formattedNumber>>, <<<<"+">>, f.format.plusSign>>,
          <<<<"-">>, f.format.minusSign>>>>
          \o (IF formattedCurrency = <<>>
              THEN <<<<<<NBSP, CurrencySign>>, <<>>>>, <<<<CurrencySign, NBSP>>, <<>>>>,
                     <<<<CurrencySign>>, <<>>>>>>
              ELSE <<<<<<CurrencySign>>, formattedCurrency>>>>)
  IN Replace(pattern, replacements)

\* Format from the negation on: amount is not negative.
formatPositive(f, pattern, amount) ==
  formatPattern(f, pattern, formatNumber(f, amount), formatCurrency(f, amount.currencyCode))

Format(f, amount) ==
  formatPositive(f, getPattern(f, amount),
                 IF IsNegative(amount) THEN Mul(amount, S_Neg1).val ELSE amount)

Parse(f, s, currencyCode) ==
  LET symbol == GetSymbol(currencyCode, f.locale).symbol
      replacements ==
        <<<<f.format.decimalSeparator, <<".">>>>, <<f.format.groupingSeparator, <<>>>>,
          <<f.format.plusSign, <<"+">>>>, <<f.format.minusSign, <<"-">>>>,
          <<symbol, <<>>>>, <<currencyCode, <<>>>>,
          <<<<LRM>>, <<>>>>, <<<<RLM>>, <<>>>>, <<<<NBSP>>, <<>>>>, <<<<" ">>, <<>>>>>>
          \o (IF f.format.numberingSystem # "latn"
              THEN [i \in 1..10 |->
                      <<<<localDigits[f.format.numberingSystem][i]>>, <<DigitChars[i]>>>>]
              ELSE <<>>)
          \o (IF f.AccountingStyle THEN <<<<<<"(">>, <<"-">>>>, <<<<")">>, <<>>>>>> ELSE <<>>)
  IN NewAmount(Replace(s, replacements), currencyCode)

\* ------------------------------------------------------------------------
\* The state machine: a caller that formats the Amount it holds and parses
\* strings with a Formatter it has set the fields of
\* ------------------------------------------------------------------------

S_1234_59 == <<"1", "2", "3", "4", ".", "5", "9">>
S_Neg1234_59 == <<"-">> \o S_1234_59
S_12345678_90 == <<"1", "2", "3", "4", "5", "6", "7", "8", ".", "9", "0">>
S_1245_988 == <<"1", "2", "4", "5", ".", "9", "8", "8">>
S_59_5 == <<"5", "9", ".", "5">>
S_12345 == <<"1", "2", "3", "4", "5">>
S_1Em7 == <<"0", ".", "0", "0", "0", "0", "0", "0", "1">>

\* Numbers and currency codes given to NewAmount.
FormatterAmounts ==
  {<<n, USD>> : n \in {S_0, S_1234_59, S_Neg1234_59, S_12345678_90, S_12345, S_1Em7}}
    \cup {<<S_1245_988, EUR>>, <<S_59_5, JPY>>}

\* Identifiers of the locales given to NewFormatter; the last one has no
\* language.
FormatterLocaleIds ==
  {ID_en, ID_es, ID_fr, ID_hi, ID_ar, ID_de_CH, <<"-", "U", "S">>}

\* The fields a caller sets on a Formatter.
CustomSymbols == [c \in {USD, EUR} |-> IF c = USD THEN <<"U", "S", "$">> ELSE <<"E", "U">>]
MaxFormatterDigits == 7
\* The fields of a Formatter that the caller may set.
Settings(f) ==
  [AccountingStyle |-> f.AccountingStyle, AddPlusSign |-> f.AddPlusSign,
   NoGrouping |-> f.NoGrouping, MinDigits |-> f.MinDigits, MaxDigits |-> f.MaxDigits,
   CurrencyDisplay |-> f.CurrencyDisplay, SymbolMap |-> f.SymbolMap]
\* The caller sets nothing.
DefaultSettings == Settings(NewFormatter(NewLocale(ID_en)))
\* The caller sets one field.
SingleSettings ==
  LET d == DefaultSettings
  IN {d, [d EXCEPT !.AccountingStyle = TRUE], [d EXCEPT !.AddPlusSign = TRUE],
      [d EXCEPT !.NoGrouping = TRUE], [d EXCEPT !.MinDigits = 0], [d EXCEPT !.MinDigits = 3],
      [d EXCEPT !.MaxDigits = 2], [d EXCEPT !.MaxDigits = MaxFormatterDigits],
      [d EXCEPT !.MaxDigits = DefaultDigits], [d EXCEPT !.CurrencyDisplay = "DisplayCode"],
      [d EXCEPT !.CurrencyDisplay = "DisplayNone"], [d EXCEPT !.SymbolMap = CustomSymbols]}
\* The caller sets two fields.
PairedSettings ==
  LET d == DefaultSettings
  IN {[d EXCEPT !.MinDigits = 0, !.MaxDigits = DefaultDigits],
      [d EXCEPT !.MinDigits = 3, !.MaxDigits = 2],
      [d EXCEPT !.MinDigits = 3, !.MaxDigits = MaxFormatterDigits],
      [d EXCEPT !.AccountingStyle = TRUE, !.AddPlusSign = TRUE],
      [d EXCEPT !.AccountingStyle = TRUE, !.CurrencyDisplay = "DisplayNone"],
      [d EXCEPT !.NoGrouping = TRUE, !.CurrencyDisplay = "DisplayCode"]}
FormatterSettings == SingleSettings \cup PairedSettings

\* The identifiers of the locales a Formatter is made for without being used.
ConstructedLocaleIds ==
  FormatterLocaleIds
    \cup {<<>>, ID_en_US, ID_en_AT, ID_es_AR, ID_sr_Latn_RS, ID_uk, <<"x", "x">>,
          <<"-", "L", "a", "t", "n">>}

\* f := NewFormatter(NewLocale(id)); f.AccountingStyle = ...; ...
Configured(id, o) ==
  [NewFormatter(NewLocale(id)) EXCEPT
     !.AccountingStyle = o.AccountingStyle, !.AddPlusSign = o.AddPlusSign,
     !.NoGrouping = o.NoGrouping, !.MinDigits = o.MinDigits, !.MaxDigits = o.MaxDigits,
     !.CurrencyDisplay = o.CurrencyDisplay, !.SymbolMap = o.SymbolMap]

\* Strings given to Parse that Format did not write.
ParseInputs ==
  {<<"$", "1", ",", "2", "3", "4", ".", "5", "9">>,
   <<"U", "S", "D", NBSP, "1", ",", "2", "3", "4", ".", "5", "9">>,
   <<"-", "$", "1", ",", "2", "3", "4", ".", "5", "9">>,
   <<"(", "$", "3", ".", "0", "0", ")">>, <<>>}

DoNewAmountFormatter ==
  /\ Idle
  /\ \E nc \in FormatterAmounts :
       LET out == NewAmount(nc[1], nc[2])
       IN /\ a' = out.val
          /\ last' = Call("NewAmount", ZeroAmount, ZeroAmount,
                          [NoArgs EXCEPT !.n = nc[1], !.code = nc[2]], out)
          /\ UNCHANGED <<Registry, walk, threads, contexts>>

\* f := NewFormatter(NewLocale(id))
DoNewFormatter ==
  /\ Idle
  /\ \E id \in ConstructedLocaleIds :
       /\ last' = Call("NewFormatter", a, ZeroAmount, [NoArgs EXCEPT !.data = id],
                       Out(a, ZeroAmount, ZeroAmount, NilError, NewFormatter(NewLocale(id))))
       /\ UNCHANGED <<Registry, a, walk, threads, contexts>>

\* s := f.Format(a)
DoFormat ==
  /\ Idle
  /\ \E id \in FormatterLocaleIds, o \in FormatterSettings :
       LET f == Configured(id, o)
       IN /\ last' = Call("Format", a, ZeroAmount, [NoArgs EXCEPT !.opts = f],
                          Out(a, ZeroAmount, ZeroAmount, NilError, Format(f, a)))
          /\ UNCHANGED <<Registry, a, walk, threads, contexts>>

\* b, err := f.Parse(s, code), the string being what f.Format(a) returned,
\* with the code of a, or another string.
DoParse ==
  /\ Idle
  /\ \E id \in FormatterLocaleIds, o \in SingleSettings :
       LET f == Configured(id, o)
       IN \E s \in {Format(f, a)} \cup (IF o = DefaultSettings THEN ParseInputs ELSE {}) :
            \E code \in {a.currencyCode} :
              LET out == Parse(f, s, code)
              IN /\ last' = Call("Parse", a, ZeroAmount,
                                 [NoArgs EXCEPT !.opts = f, !.data = s, !.code = code],
                                 [out EXCEPT !.a = a])
                 /\ UNCHANGED <<Registry, a, walk, threads, contexts>>

NextFormatter ==
  \/ DoNewAmountFormatter
  \/ DoNewFormatter
  \/ DoFormat
  \/ DoParse
  \/ Return

SpecFormatter == Init /\ [][NextFormatter]_vars

\* ------------------------------------------------------------------------
\* Properties
\* ------------------------------------------------------------------------

Finite(x) == x.number.Form = "Finite"
Registered(code) == code # EmptyCode /\ code \in DOMAIN currencies

\* A well-formed finite decimal: an optional sign, then digits with at most
\* one decimal point among them.
WellFormedDecimal(n) ==
  LET body == IF Len(n) > 0 /\ n[1] \in {"-", "+"} THEN Tail(n) ELSE n
  IN /\ \A i \in 1..Len(body) : IsDigitChar(body[i]) \/ body[i] = "."
     /\ \E i \in 1..Len(body) : IsDigitChar(body[i])
     /\ Cardinality({i \in 1..Len(body) : body[i] = "."}) <= 1

\* The order of two finite numbers by value: the signed coefficients at the
\* smaller of the two exponents.
ValueCmp(x, y) ==
  LET s == MinInt(x.Exponent, y.Exponent)
      cx == BigShift(x.Coeff, x.Exponent - s)
      cy == BigShift(y.Coeff, y.Exponent - s)
      nx == x.Negative /\ ~BigIsZero(cx)
      ny == y.Negative /\ ~BigIsZero(cy)
  IN IF nx /\ ~ny THEN -1
     ELSE IF ~nx /\ ny THEN 1
     ELSE IF nx THEN BigCmp(cy, cx)
     ELSE BigCmp(cx, cy)

\* C1: Add, Sub and Cmp of two Amounts with different non-empty currency
\* codes return a MismatchError carrying both operands and no computed
\* Amount, whatever the numbers (a zero number included).
C1_MismatchSafety ==
  (/\ last.op \in {"Add", "Sub", "Cmp"}
   /\ last.recv.currencyCode # EmptyCode
   /\ last.arg.currencyCode # EmptyCode
   /\ last.recv.currencyCode # last.arg.currencyCode)
  => /\ last.out.err = MismatchError(last.recv, last.arg)
     /\ last.out.val = ZeroAmount

\* C1 witness: 0 USD minus a JPY amount was refused.
C1_Witness ==
  /\ last.op = "Sub"
  /\ last.recv.currencyCode = USD
  /\ DecIsZero(last.recv.number)
  /\ last.arg.currencyCode = JPY
  /\ last.out.err.kind = "MismatchError"

\* C2 as the spec words it: a.Add(zero), zero.Add(a) and a.Sub(zero) are
\* Equal to a, and zero.Sub(a) is Equal to a.Mul("-1"), for every Amount a
\* with a registered currency and a finite number.
C2_AsStated ==
  /\ (last.op \in {"Add", "Sub"} /\ last.arg = ZeroAmount /\ Registered(last.recv.currencyCode))
       => (last.out.err = NilError /\ Equal(last.out.val, last.recv))
  /\ (last.op = "Add" /\ last.recv = ZeroAmount /\ Registered(last.arg.currencyCode))
       => (last.out.err = NilError /\ Equal(last.out.val, last.arg))
  /\ (last.op = "Sub" /\ last.recv = ZeroAmount /\ Registered(last.arg.currencyCode)
        /\ Finite(last.arg))
       => /\ last.out.err = NilError
          /\ Mul(last.arg, S_Neg1).err = NilError
          /\ Equal(last.out.val, Mul(last.arg, S_Neg1).val)

\* C2: for every Amount a with a registered currency, a.Add(zero),
\* zero.Add(a) and a.Sub(zero) succeed and are Equal to a; zero.Sub(a)
\* succeeds with a's currency and a's number with the sign flipped (a zero
\* stays unsigned), and is Equal to a.Mul("-1") whenever a's number is
\* finite with a coefficient of at most 39 digits.
C2_ZeroIdentity ==
  /\ (last.op \in {"Add", "Sub"} /\ last.arg = ZeroAmount /\ Registered(last.recv.currencyCode))
       => (last.out.err = NilError /\ Equal(last.out.val, last.recv))
  /\ (last.op = "Add" /\ last.recv = ZeroAmount /\ Registered(last.arg.currencyCode))
       => (last.out.err = NilError /\ Equal(last.out.val, last.arg))
  /\ (last.op = "Sub" /\ last.recv = ZeroAmount /\ Registered(last.arg.currencyCode))
       => /\ last.out.err = NilError
          /\ last.out.val.currencyCode = last.arg.currencyCode
          /\ last.out.val.number.Form = last.arg.number.Form
          /\ last.out.val.number.Coeff = last.arg.number.Coeff
          /\ last.out.val.number.Exponent = last.arg.number.Exponent
          /\ last.out.val.number.Negative =
               (~last.arg.number.Negative /\ ~DecIsZero(last.arg.number))
          /\ (Finite(last.arg) /\ Len(last.arg.number.Coeff) <= 39)
               => /\ Mul(last.arg, S_Neg1).err = NilError
                  /\ Equal(last.out.val, Mul(last.arg, S_Neg1).val)

\* C2 witness: the zero value minus a non-zero USD amount gave its negation.
C2_Witness ==
  /\ last.op = "Sub"
  /\ last.recv = ZeroAmount
  /\ last.arg.currencyCode = USD
  /\ Finite(last.arg)
  /\ ~DecIsZero(last.arg.number)
  /\ last.out.err = NilError
  /\ Equal(last.out.val, Mul(last.arg, S_Neg1).val)

C3_WitnessZero ==
  /\ last.op = "Cmp"
  /\ last.recv = ZeroAmount
  /\ last.arg.currencyCode = USD
  /\ last.out.err.kind = "MismatchError"

FrameOps == {"Add", "Sub", "Mul", "Div", "Convert", "Round", "RoundTo", "BigInt", "Int64"}

\* C4: Add, Sub, Mul, Div, Convert, Round, RoundTo, BigInt and Int64 leave
\* the receiver and the argument Amount as they were: the Amount the caller
\* holds has the same number and currency after the call as before it.
C4_Frame ==
  [][last'.op \in FrameOps
       => /\ a' = a
          /\ last'.out.a = last'.recv
          /\ last'.out.b = last'.arg
          /\ Number(a') = Number(a)
          /\ a'.currencyCode = a.currencyCode]_vars

\* C4 witness: RoundTo returned a number other than the receiver's, and the
\* receiver is still held unchanged.
C4_Witness ==
  /\ last.op = "RoundTo"
  /\ last.out.err = NilError
  /\ Number(last.out.val) # Number(last.recv)
  /\ a = last.recv
  /\ last.out.a = last.recv

\* C5 as the spec words it: with a well-formed number, NewAmount fails with
\* InvalidCurrencyCodeError exactly when the code is non-empty and not in the
\* registry, and otherwise (the empty code included) returns n and the code.
C5_AsStated ==
  (last.op = "NewAmount" /\ WellFormedDecimal(last.args.n))
  => IF last.args.code # EmptyCode /\ last.args.code \notin DOMAIN currencies
     THEN last.out.err = InvalidCurrencyCodeError(last.args.code)
     ELSE /\ last.out.err = NilError
          /\ last.out.val = Amt(SetString(last.args.n).d, last.args.code)

\* C5: with a well-formed number, NewAmount fails with
\* InvalidCurrencyCodeError exactly when the code is empty or not in the
\* registry, returning the empty Amount; otherwise it returns an Amount
\* carrying n and the code.
C5_NewAmountCode ==
  (last.op = "NewAmount" /\ WellFormedDecimal(last.args.n))
  => IF last.args.code = EmptyCode \/ last.args.code \notin DOMAIN currencies
     THEN /\ last.out.err = InvalidCurrencyCodeError(last.args.code)
          /\ last.out.val = ZeroAmount
     ELSE /\ last.out.err = NilError
          /\ last.out.val.currencyCode = last.args.code
          /\ Finite(last.out.val)
          /\ SetString(Number(last.out.val)).d = SetString(last.args.n).d
          /\ a = last.out.val

\* C5 witness: NewAmount with a well-formed number and the empty code was
\* refused.
C5_Witness ==
  /\ last.op = "NewAmount"
  /\ WellFormedDecimal(last.args.n)
  /\ last.args.code = EmptyCode
  /\ last.out.err = InvalidCurrencyCodeError(EmptyCode)

\* C6 as the spec words it: NewAmount, Mul, Div and Convert return
\* InvalidNumberError for every string that is not a well-formed finite
\* decimal, and the Amount the caller holds never has a non-finite number.
C6_AsStated ==
  /\ (last.op \in {"Mul", "Div"} /\ ~WellFormedDecimal(last.args.n))
       => last.out.err = InvalidNumberError(last.args.n)
  /\ (last.op \in {"NewAmount", "Convert"} /\ Registered(last.args.code)
        /\ ~WellFormedDecimal(last.args.n))
       => last.out.err = InvalidNumberError(last.args.n)
  /\ Finite(a)
  /\ Finite(last.out.val)

\* C7: a.Div(n) returns InvalidNumberError carrying n and the empty Amount
\* whenever n does not parse or parses to a number equal to zero ("0",
\* "0.00", "-0"); for every other n it succeeds with a's currency code, and a
\* finite a divided by a finite n gives a finite number.
C7_DivByZero ==
  last.op = "Div"
  => LET p == SetString(last.args.n)
     IN IF ~p.ok \/ (p.d.Form = "Finite" /\ BigIsZero(p.d.Coeff))
        THEN /\ last.out.err = InvalidNumberError(last.args.n)
             /\ last.out.val = ZeroAmount
        ELSE /\ last.out.err = NilError
             /\ last.out.val.currencyCode = last.recv.currencyCode
             /\ (Finite(last.recv) /\ p.d.Form = "Finite") => Finite(last.out.val)

\* C7 witness: a non-zero USD amount divided by "0.00" was refused.
C7_Witness ==
  /\ last.op = "Div"
  /\ last.args.n = S_0_00
  /\ last.recv.currencyCode = USD
  /\ ~DecIsZero(last.recv.number)
  /\ last.out.err = InvalidNumberError(S_0_00)
  /\ last.out.val = ZeroAmount

\* C7 witness of the other case: a division by "3" succeeded.
C7_WitnessQuotient ==
  /\ last.op = "Div"
  /\ last.args.n = S_3
  /\ last.out.err = NilError
  /\ last.out.val.currencyCode = USD
  /\ ~DecIsZero(last.out.val.number)

\* The exact product of two finite numbers: coefficient, sign and scale.
ExactProduct(x, y) ==
  Dec("Finite", x.Negative # y.Negative, BigMul(x.Coeff, y.Coeff), x.Exponent + y.Exponent)

ProductTo39(x, y) ==
  LET exact == ExactProduct(x, y)
  IN IF Len(exact.Coeff) <= 39 THEN exact
     ELSE RoundDigits(39, "RoundHalfUp", exact)

C8_WitnessRounded ==
  /\ last.op = "Mul"
  /\ Len(last.recv.number.Coeff) = 40
  /\ last.args.n = S_Big40
  /\ last.out.err = NilError
  /\ Len(last.out.val.number.Coeff) = 39

\* C9 as the spec words it: for a finite a, digits in 0..254 and any mode,
\* RoundTo returns a finite number with exactly that many fraction digits
\* and a's code; Round does so with the digits of a's registered currency.
C9_AsStated ==
  /\ (last.op = "RoundTo" /\ Finite(last.recv) /\ last.args.digits \in 0..MaxUint8Digits)
       => /\ Finite(last.out.val)
          /\ last.out.val.number.Exponent = 0 - last.args.digits
          /\ last.out.val.currencyCode = last.recv.currencyCode
  /\ (last.op = "Round" /\ Finite(last.recv) /\ Registered(last.recv.currencyCode))
       => /\ Finite(last.out.val)
          /\ last.out.val.number.Exponent = 0 - currencies[last.recv.currencyCode].digits
          /\ last.out.val.currencyCode = last.recv.currencyCode

\* C10: rounding is idempotent: Round applied to what Round returned, and
\* RoundTo applied with the same digits and mode to what RoundTo returned,
\* give the same number string.
C10_Idempotent ==
  /\ last.op = "Round"
       => Number(Round(last.out.val).val) = Number(last.out.val)
  /\ last.op = "RoundTo"
       => Number(RoundTo(last.out.val, last.args.digits, last.args.mode).val)
            = Number(last.out.val)

\* C10 witness: RoundTo dropped digits of a finite number, and applied again
\* to its result it returns that result.
C10_Witness ==
  /\ last.op = "RoundTo"
  /\ Finite(last.out.val)
  /\ last.args.digits = 2
  /\ Number(last.out.val) # Number(last.recv)
  /\ last.out.val.number.Exponent > last.recv.number.Exponent
  /\ RoundTo(last.out.val, last.args.digits, last.args.mode).val = last.out.val

\* The digits RoundTo uses: the currency's for the placeholder.
DigitsUsed(x, digits) ==
  IF digits = DefaultDigits THEN GetDigits(x.currencyCode).digits ELSE digits

\* The coefficient that rounding the magnitude of number x to d fraction
\* digits gives under the mode's rule: kept are the digits down to the d-th
\* fraction digit, rem the digits beyond it.
RoundedMagnitude(x, d, mode) ==
  LET c == x.Coeff
      diff == (0 - d) - x.Exponent
      padded == IF Len(c) < diff THEN Zeros(diff - Len(c)) \o c ELSE c
      kept == IF Len(padded) = diff THEN <<0>>
              ELSE SubSeq(padded, 1, Len(padded) - diff)
      rem == SubSeq(padded, Len(padded) - diff + 1, Len(padded))
      remZero == \A i \in 1..Len(rem) : rem[i] = 0
      restZero == \A i \in 2..Len(rem) : rem[i] = 0
      tie == rem[1] = 5 /\ restZero
      above == rem[1] > 5 \/ (rem[1] = 5 /\ ~restZero)
      away == CASE mode = "RoundHalfUp" -> rem[1] >= 5
                [] mode = "RoundHalfDown" -> above
                [] mode = "RoundUp" -> ~remZero
                [] mode = "RoundDown" -> FALSE
                [] mode = "RoundHalfEven" -> above \/ (tie /\ BigIsOdd(kept))
  IN IF diff <= 0 THEN Norm(BigShift(c, 0 - diff))
     ELSE Norm(IF away THEN BigAdd(kept, <<1>>) ELSE kept)

\* C11 as the spec words it: whenever RoundTo of a finite number returns a
\* finite number, the sign is the receiver's, the magnitude is the neighbour
\* at d fraction digits that the mode's rule picks, and RoundTo of the
\* negated receiver is the same magnitude with the other sign.
C11_AsStated ==
  (last.op = "RoundTo" /\ Finite(last.recv) /\ Finite(last.out.val))
  => LET d == DigitsUsed(last.recv, last.args.digits)
         neg == Amt([last.recv.number EXCEPT !.Negative = ~last.recv.number.Negative],
                    last.recv.currencyCode)
         mirror == RoundTo(neg, last.args.digits, last.args.mode).val.number
     IN /\ last.out.val.number.Negative = last.recv.number.Negative
        /\ last.out.val.number.Exponent = 0 - d
        /\ last.out.val.number.Coeff = RoundedMagnitude(last.recv.number, d, last.args.mode)
        /\ mirror.Coeff = last.out.val.number.Coeff
        /\ mirror.Exponent = last.out.val.number.Exponent
        /\ mirror.Negative = ~last.out.val.number.Negative

\* C11 without round-up of a number whose digits all lie two or more places
\* beyond the target: everything else RoundTo rounds as the spec says.
C11_ExceptAllDropped ==
  (last.op = "RoundTo" /\ Finite(last.recv) /\ Finite(last.out.val)
     /\ ~(last.args.mode = "RoundUp"
          /\ Len(last.recv.number.Coeff)
               < (0 - DigitsUsed(last.recv, last.args.digits)) - last.recv.number.Exponent))
  => LET d == DigitsUsed(last.recv, last.args.digits)
     IN /\ last.out.val.number.Negative = last.recv.number.Negative
        /\ last.out.val.number.Exponent = 0 - d
        /\ last.out.val.number.Coeff = RoundedMagnitude(last.recv.number, d, last.args.mode)

\* C12 as the spec words it: MarshalBinary of an Amount with a registered
\* currency is the code followed by the number string; UnmarshalBinary of
\* those bytes succeeds with the same number string and code; fewer than 3
\* bytes fail with InvalidCurrencyCodeError.
C12_AsStated ==
  /\ (last.op = "MarshalBinary" /\ Registered(last.recv.currencyCode))
       => last.out.ret = last.recv.currencyCode \o Number(last.recv)
  /\ (last.op = "UnmarshalBinary" /\ Registered(last.recv.currencyCode)
        /\ last.args.data = MarshalBinary(last.recv).ret)
       => /\ last.out.err = NilError
          /\ Number(last.out.a) = Number(last.recv)
          /\ last.out.a.currencyCode = last.recv.currencyCode
  /\ (last.op = "UnmarshalBinary" /\ Len(last.args.data) < 3)
       => last.out.err.kind = "InvalidCurrencyCodeError"

\* C12 for codes of three bytes: there the round trip holds.
C12_ThreeByteCodes ==
  /\ (last.op = "MarshalBinary" /\ Registered(last.recv.currencyCode))
       => last.out.ret = last.recv.currencyCode \o Number(last.recv)
  /\ (last.op = "UnmarshalBinary" /\ Registered(last.recv.currencyCode)
        /\ Len(last.recv.currencyCode) = 3
        /\ last.args.data = MarshalBinary(last.recv).ret)
       => /\ last.out.err = NilError
          /\ Number(last.out.a) = Number(last.recv)
          /\ last.out.a.currencyCode = last.recv.currencyCode
  /\ (last.op = "UnmarshalBinary" /\ Len(last.args.data) < 3)
       => last.out.err = InvalidCurrencyCodeError(last.args.data)

\* A currency column that is empty or holds only spaces.
Blank(c) == \A i \in 1..Len(c) : c[i] = " "

\* The call was a.Scan("(n,c)") with the n and c recorded.
ScanOfPair ==
  last.op = "Scan" /\ last.args.data = PairString(last.args.n, last.args.code)

\* C13 as the spec words it: Scan of "(n,c)" with c empty or all spaces
\* gives the zero value with the empty code when n is zero and
\* InvalidCurrencyCodeError when n is another number; Scan of what Value
\* returned reproduces the number and the code of an Amount with a
\* registered currency and of the zero value.
C13_AsStated ==
  /\ (ScanOfPair /\ Blank(last.args.code) /\ SetString(last.args.n).ok)
       => IF BigIsZero(SetString(last.args.n).d.Coeff)
          THEN /\ last.out.err = NilError
               /\ last.out.a.currencyCode = EmptyCode
               /\ Equal(last.out.a, ZeroAmount)
          ELSE last.out.err.kind = "InvalidCurrencyCodeError"
  /\ (last.op = "Scan" /\ last.args.data = Value(last.recv).ret
        /\ (Registered(last.recv.currencyCode) \/ last.recv = ZeroAmount))
       => /\ last.out.err = NilError
          /\ Number(last.out.a) = Number(last.recv)
          /\ last.out.a.currencyCode = last.recv.currencyCode

\* C13 with the blank column being empty or exactly three spaces.
C13_ThreeSpaces ==
  /\ (ScanOfPair /\ last.args.code \in {EmptyCode, ThreeSpaces} /\ SetString(last.args.n).ok)
       => IF BigIsZero(SetString(last.args.n).d.Coeff)
          THEN /\ last.out.err = NilError
               /\ last.out.a.currencyCode = EmptyCode
               /\ Equal(last.out.a, ZeroAmount)
          ELSE last.out.err = InvalidCurrencyCodeError(last.args.code)
  /\ (ScanOfPair /\ Blank(last.args.code) /\ SetString(last.args.n).ok
        /\ ~BigIsZero(SetString(last.args.n).d.Coeff))
       => last.out.err = InvalidCurrencyCodeError(last.args.code)
  /\ (last.op = "Scan" /\ last.args.data = Value(last.recv).ret
        /\ (Registered(last.recv.currencyCode) \/ last.recv = ZeroAmount))
       => /\ last.out.err = NilError
          /\ Number(last.out.a) = Number(last.recv)
          /\ last.out.a.currencyCode = last.recv.currencyCode

\* C14 as the spec words it: Scan of any string returns nil, an
\* InvalidNumberError or an InvalidCurrencyCodeError, and UnmarshalBinary of
\* any bytes returns nil or an error value; neither panics.
C14_AsStated ==
  /\ last.op = "Scan"
       => last.out.err.kind \in {"nil", "InvalidNumberError", "InvalidCurrencyCodeError"}
  /\ last.op = "UnmarshalBinary"
       => last.out.err.kind \in {"nil", "InvalidNumberError", "InvalidCurrencyCodeError"}

\* The Minor m came from NewMinor with an integer string and a registered
\* currency.
MinorOfRegistered(m) ==
  Registered(m.currencyCode) /\ m.number.Form = "Finite"
    /\ m.number.Exponent = 0 - GetDigits(m.currencyCode).digits

\* C15 as the spec words it: for a Minor m of either sign with a registered
\* currency, UnmarshalJSON of m.MarshalJSON() and UnmarshalBinary of
\* m.MarshalBinary() succeed and give a Minor that is Equal to m.
C15_AsStated ==
  /\ (last.op = "Minor.UnmarshalJSON" /\ MinorOfRegistered(last.recv)
        /\ last.args.data = MinorMarshalJSON(last.recv).ret)
       => last.out.err = NilError /\ Equal(last.out.a, last.recv)
  /\ (last.op = "Minor.UnmarshalBinary" /\ MinorOfRegistered(last.recv)
        /\ last.args.data = MinorMarshalBinary(last.recv).ret)
       => last.out.err = NilError /\ Equal(last.out.a, last.recv)

\* C15 for Minors that are not negative, the binary form for codes of three
\* bytes: there the round trip holds.
C15_NonNegative ==
  /\ (last.op = "Minor.UnmarshalJSON" /\ MinorOfRegistered(last.recv)
        /\ ~last.recv.number.Negative
        /\ last.args.data = MinorMarshalJSON(last.recv).ret)
       => last.out.err = NilError /\ Equal(last.out.a, last.recv)
  /\ (last.op = "Minor.UnmarshalBinary" /\ MinorOfRegistered(last.recv)
        /\ ~last.recv.number.Negative /\ Len(last.recv.currencyCode) = 3
        /\ last.args.data = MinorMarshalBinary(last.recv).ret)
       => last.out.err = NilError /\ Equal(last.out.a, last.recv)

\* The signed value of the Amount x, rounded, in minor units.
SignedMinorUnits(x) ==
  LET n == Round(x).val.number
  IN IntOf(n.Negative /\ ~BigIsZero(n.Coeff), n.Coeff)

\* The big.Int that BigInt returned: MathBigInt of a coefficient.
ReturnedBigInt == IntOf(FALSE, last.out.ret)

\* C16 as the spec words it: BigInt of NewAmountFromBigInt(n, c) is n and
\* Int64 of NewAmountFromInt64(n, c) is n, for n of either sign; BigInt of
\* any Amount is the signed value of its Round in minor units, and equals
\* Int64 whenever Int64 returns no error.
C16_AsStated ==
  /\ last.op = "BigInt"
       => /\ \A n \in BigIntInputs \ {NilBigInt}, c \in IntCodes :
               (Registered(c) /\ NewAmountFromBigInt(n, c).val = last.recv)
                 => ReturnedBigInt = n
          /\ Finite(last.recv) => ReturnedBigInt = SignedMinorUnits(last.recv)
          /\ Int64(last.recv).err = NilError => ReturnedBigInt = Int64(last.recv).ret
  /\ last.op = "Int64"
       => \A n \in Int64Inputs, c \in IntCodes :
            (Registered(c) /\ NewAmountFromInt64(n, c).val = last.recv)
              => last.out.err = NilError /\ last.out.ret = n

\* C16 with BigInt read as a magnitude: BigInt is the absolute value of the
\* Round in minor units; the int64 round trip holds for either sign.
C16_Magnitude ==
  /\ last.op = "BigInt"
       => /\ \A n \in BigIntInputs \ {NilBigInt}, c \in IntCodes :
               (Registered(c) /\ NewAmountFromBigInt(n, c).val = last.recv)
                 => ReturnedBigInt = IntOf(FALSE, n.mag)
          /\ Finite(last.recv) => ReturnedBigInt.mag = SignedMinorUnits(last.recv).mag
          /\ Int64(last.recv).err = NilError
               => ReturnedBigInt.mag = Int64(last.recv).ret.mag
  /\ last.op = "Int64"
       => \A n \in Int64Inputs, c \in IntCodes :
            (Registered(c) /\ NewAmountFromInt64(n, c).val = last.recv)
              => last.out.err = NilError /\ last.out.ret = n

\* C17: RegisterCurrency of an empty code returns EmptyCurrencyCodeError and
\* of a code in the registry CurrencyAlreadyExistsError, both leaving the
\* info map, the code list and the symbol lists as they were; of any other
\* code it returns nil, and afterwards the code is valid, its digits and
\* numeric code are those of the options, the code is the last of the code
\* list, and registering it again fails.
C17_Register ==
  [][\A code \in RegistryCodes, opts \in RegistryOptions :
       (last'.op = "RegisterCurrency" /\ last'.args.code = code /\ last'.args.opts = opts)
         => IF code = EmptyCode
            THEN last'.out.err = EmptyCurrencyCodeError /\ UNCHANGED Registry
            ELSE IF code \in DOMAIN currencies
            THEN last'.out.err = CurrencyAlreadyExistsError(code) /\ UNCHANGED Registry
            ELSE /\ last'.out.err = NilError
                 /\ IsValid(code)'
                 /\ GetDigits(code)' = [digits |-> opts.Digits, ok |-> TRUE]
                 /\ GetNumericCode(code)' = [numericCode |-> opts.NumericCode, ok |-> TRUE]
                 /\ currencyCodes' = Append(currencyCodes, code)
                 /\ \A c \in DOMAIN currencies : currencies'[c] = currencies[c]
                 /\ \A again \in RegistryOptions :
                      RegisterCurrency(code, again)'.err = CurrencyAlreadyExistsError(code)]_vars

\* C17 witness: a second currency was registered after a first one, and a
\* lookup of it answers with the digits and the numeric code it was
\* registered with.
C17_Witness ==
  /\ last.op = "Lookup"
  /\ last.args.code = DOGE
  /\ last.out.ret.valid
  /\ last.out.ret.digits = [digits |-> DefaultDigits, ok |-> TRUE]
  /\ last.out.ret.numericCode = [numericCode |-> "840", ok |-> TRUE]
  /\ currencyCodes = <<EUR, JPY, USD, ETH, DOGE>>
  /\ RegisterCurrency(DOGE, CHOOSE o \in RegistryOptions : o.Digits = 8).err
       = CurrencyAlreadyExistsError(DOGE)


\* The symbol that the spec gives for a locale that is not en, en-US or
\* empty: that of the first entry, in registration order, whose locale set
\* holds the identifier of the locale or else of the nearest parent that
\* some entry holds; "" when no identifier of the chain is held.
RECURSIVE SymbolOfChain(_, _)
SymbolOfChain(symbols, locale) ==
  LET id == String(locale)
      holds == {k \in 1..Len(symbols) : \E n \in 1..Len(symbols[k].locales) :
                                          symbols[k].locales[n] = id}
  IN IF holds # {} THEN symbols[SetMin(holds)].symbol
     ELSE IF IsEmpty(GetParent(locale)) THEN <<>>
     ELSE SymbolOfChain(symbols, GetParent(locale))

\* C18 as the spec words it: GetSymbol of an invalid or empty code is
\* (code, false); of a valid code without symbol entries (code, true); for
\* en, en-US or the empty locale the first entry's symbol; otherwise the
\* symbol of the first entry whose locale set holds the identifier of the
\* locale or of its nearest parent, whatever the length and ordering of the
\* locale set, and "" when none does.
C18_AsStated ==
  last.op = "GetSymbol"
    => LET code == last.args.code
           locale == NewLocale(last.args.data)
       IN IF code = EmptyCode \/ code \notin DOMAIN currencies
          THEN last.out.ret = [symbol |-> code, ok |-> FALSE]
          ELSE IF code \notin DOMAIN currencySymbols
          THEN last.out.ret = [symbol |-> code, ok |-> TRUE]
          ELSE IF last.args.data \in {<<>>, ID_en, ID_en_US}
          THEN last.out.ret = [symbol |-> currencySymbols[code][1].symbol, ok |-> TRUE]
          ELSE last.out.ret = [symbol |-> SymbolOfChain(currencySymbols[code], locale),
                               ok |-> TRUE]

\* The locale sets of the code are short or in ascending order.
RECURSIVE Ascending(_)
Ascending(list) ==
  Len(list) < 2 \/ (StringLess(list[1], list[2]) /\ Ascending(Tail(list)))
ShortOrAscending(code) ==
  \A k \in 1..Len(currencySymbols[code]) :
    Len(currencySymbols[code][k].locales) < 10 \/ Ascending(currencySymbols[code][k].locales)

\* C18 for locale sets of fewer than ten identifiers or in ascending order.
C18_ShortOrAscending ==
  (last.op = "GetSymbol" /\ last.args.code \in DOMAIN currencySymbols
     /\ ~ShortOrAscending(last.args.code))
    \/ C18_AsStated


\* A walk over the parents of a locale has come to its end.
WalkDone(loop) == walk.pc = "none" /\ walk.loop = loop /\ walk.seen # <<>>

\* C19 as the spec words it: repeated GetParent from any Locale ends at the
\* empty locale, no locale coming twice, and passes through "en" unless it
\* started at "en" or at the empty locale.
C19_AsStated ==
  WalkDone("GetParent")
    => /\ IsEmpty(walk.locale)
       /\ \A i, j \in 1..Len(walk.seen) : i # j => walk.seen[i] # walk.seen[j]
       /\ walk.seen[1] # Locale(ID_en, <<>>, <<>>)
            => \E i \in 1..Len(walk.seen) : walk.seen[i] = Locale(ID_en, <<>>, <<>>)

\* C19 for locales with a language: there the walk passes through "en".
C19_WithLanguage ==
  WalkDone("GetParent")
    => /\ IsEmpty(walk.locale)
       /\ \A i, j \in 1..Len(walk.seen) : i # j => walk.seen[i] # walk.seen[j]
       /\ (walk.seen[1] # Locale(ID_en, <<>>, <<>>) /\ walk.seen[1].Language # <<>>)
            => \E i \in 1..Len(walk.seen) : walk.seen[i] = Locale(ID_en, <<>>, <<>>)

\* The longest walk of the locales and of the table of this model: en-AT,
\* en-150, en-001, en.
LongestWalk == 4

\* Every loop over the parents takes a bounded number of turns, each turn
\* lengthening the list of the locales seen: no loop runs for ever.
C19_LoopsEnd == Len(walk.seen) <= LongestWalk
C19_LoopsGrow ==
  [][(walk.pc = "loop" /\ walk'.pc = "loop") => Len(walk'.seen) = Len(walk.seen) + 1]_vars


\* The segments of an identifier: trimmed, in lower case, "_" read as "-".
Segments(id) == SplitBy(ReplaceAll(StringsToLower(TrimSpace(id)), "_", "-"), "-")

\* The last segment after the first whose length is one of lens, or "".
LaterSegment(segs, lens) ==
  LET at == {i \in 2..Len(segs) : Len(segs[i]) \in lens}
  IN IF at = {} THEN <<>> ELSE segs[CHOOSE i \in at : \A k \in at : k <= i]

\* The Locale that the spec describes for an identifier.
NormalizedLocale(id) ==
  LET segs == Segments(id)
      script == LaterSegment(segs, {4})
  IN Locale(segs[1],
            IF script = <<>> THEN <<>> ELSE <<ToUpper(script[1])>> \o Tail(script),
            StringsToUpper(LaterSegment(segs, {2, 3})))

\* C20 as the spec words it: NewLocale gives the first segment as the
\* language, a later segment of 4 characters as the script with its first
\* letter in upper case, a later segment of 2 or 3 characters as the
\* territory in upper case, whatever their order; String writes language,
\* script, territory in this order; and NewLocale(l.String()) is l for every
\* l that NewLocale returned.
C20_AsStated ==
  /\ last.op = "NewLocale" => last.out.ret = NormalizedLocale(last.args.data)
  /\ last.op = "String"
       => last.out.ret = last.args.opts.l.Language
            \o (IF last.args.opts.l.Script = <<>> THEN <<>>
                ELSE <<"-">> \o last.args.opts.l.Script)
            \o (IF last.args.opts.l.Territory = <<>> THEN <<>>
                ELSE <<"-">> \o last.args.opts.l.Territory)
  /\ (last.op = "NewLocale" /\ last.args.opts.parsed
        /\ last.args.data = String(last.args.opts.l))
       => last.out.ret = last.args.opts.l

\* C20 with the round trip for the locales whose string does not end in
\* white space.
C20_NoTrailingSpace ==
  /\ last.op = "NewLocale" => last.out.ret = NormalizedLocale(last.args.data)
  /\ (last.op = "NewLocale" /\ last.args.opts.parsed
        /\ last.args.data = String(last.args.opts.l)
        /\ TrimSpace(last.args.data) = last.args.data)
       => last.out.ret = last.args.opts.l

\* What ctx.Add or ctx.Sub gives for the two numbers under the 39-digit
\* context.
SumIn39(x, y, subtract) == CtxAdd(decimalContextPrecision39, x.number, y.number, subtract)

\* C23 as the spec words it: for Amounts a and b of the same currency, Add
\* and Sub return exactly the number the 39-digit context gives, whichever
\* context decimalContext selected.
C23_AsStated ==
  (last.op \in {"Add", "Sub"} /\ last.recv.currencyCode = last.arg.currencyCode)
    => /\ last.out.err = NilError
       /\ last.out.val.number = SumIn39(last.recv, last.arg, last.op = "Sub")

\* The codes that the registry calls of this model name, and the built-in
\* ones.
KnownCodes == RegistryCodes \cup {LowerUSD, EUR, JPY}

InCodeList(code) == \E i \in 1..Len(currencyCodes) : currencyCodes[i] = code

\* The code list starts with the built-in list, holds no code twice, and
\* holds a code exactly when the code is not empty and IsValid accepts it.
CodeListOk ==
  /\ Len(currencyCodes) >= Len(BuiltinCodes)
  /\ SubSeq(currencyCodes, 1, Len(BuiltinCodes)) = BuiltinCodes
  /\ \A i, j \in 1..Len(currencyCodes) : currencyCodes[i] = currencyCodes[j] => i = j
  /\ \A code \in KnownCodes : InCodeList(code) <=> (code # EmptyCode /\ IsValid(code))

\* C24: GetCurrencyCodes() is the built-in list in its order followed by
\* the successfully registered codes in registration order: a
\* RegisterCurrency that returns nil appends its code at the end, every other
\* step leaves the list as it was, the list never holds a code twice, and a
\* code is in the list exactly when it is a non-empty code that IsValid
\* accepts.
C24_CodeList ==
  [][/\ CodeListOk
     /\ CodeListOk'
     /\ IF last'.op = "RegisterCurrency" /\ last.op = "none" /\ last'.out.err = NilError
        THEN currencyCodes' = Append(currencyCodes, last'.args.code)
        ELSE currencyCodes' = currencyCodes]_vars

\* C24 witness: two registrations succeeded, in the order DOGE, ETH, and a
\* third one, of ETH again, has just failed.
C24_Witness ==
  /\ currencyCodes = BuiltinCodes \o <<DOGE, ETH>>
  /\ last.op = "RegisterCurrency"
  /\ last.args.code = ETH
  /\ last.out.err = CurrencyAlreadyExistsError(ETH)

DecodeOps == {"UnmarshalBinary", "UnmarshalJSON", "Scan"}

\* C30: when UnmarshalBinary, UnmarshalJSON or Scan returns an error (or
\* panics), the receiver holds the number and the currency code it held
\* before the call, the zero value as well as a valid Amount; when the
\* receiver changed, it holds a number and a currency code that both passed
\* validation: a code that IsValid accepts, empty only next to a zero
\* number, which Scan reads as the zero value.
C30_FailureLeavesReceiver ==
  last.op \in DecodeOps
    => /\ last.out.err # NilError => (last.out.a = last.recv /\ a = last.recv)
       /\ (last.out.err = NilError /\ last.out.a # last.recv)
            => /\ IsValid(last.out.a.currencyCode)
               /\ last.out.a.currencyCode = EmptyCode
                    => (last.op = "Scan" /\ DecIsZero(last.out.a.number))

\* C30 witness: Scan into 3.50 USD of a pair whose number is valid and whose
\* currency code is not returned InvalidCurrencyCodeError and the receiver is
\* still 3.50 USD.
C30_Witness ==
  /\ last.op = "Scan"
  /\ last.args.n = S_0_00
  /\ last.out.err = InvalidCurrencyCodeError(LowerUSD)
  /\ last.recv = NewAmount(S_3_50, USD).val
  /\ a = last.recv

\* C30 witness: UnmarshalJSON into 3.50 USD of a text with an invalid number
\* failed and left 3.50 USD.
C30_WitnessJSON ==
  /\ last.op = "UnmarshalJSON"
  /\ last.out.err = InvalidNumberError(S_Invalid)
  /\ a = NewAmount(S_3_50, USD).val

\* How often the code is in GetCurrencyCodes().
TimesInCodeList(code) == Cardinality({i \in 1..Len(currencyCodes) : currencyCodes[i] = code})

\* C25 as the spec words it: of two RegisterCurrency calls for the same new
\* code that run at the same time, exactly one returns nil and the other
\* CurrencyAlreadyExistsError, in every interleaving, and the code is once in
\* GetCurrencyCodes(); and a reader that found the code valid finds it in the
\* code list too.
C25_AsStated ==
  /\ \A t \in ThreadIds : threads[t].pc # "fatal"
  /\ \A t, u \in Registrars :
       (t # u /\ threads[t].pc = "done" /\ threads[u].pc = "done"
          /\ threads[t].code = threads[u].code /\ threads[t].fresh /\ threads[u].fresh
          /\ u \in threads[t].overlap)
         => /\ {threads[t].err, threads[u].err}
                 = {NilError, CurrencyAlreadyExistsError(threads[t].code)}
            /\ TimesInCodeList(threads[t].code) = 1
  /\ (threads[Reader].pc = "done" /\ threads[Reader].obs.valid)
       => threads[Reader].obs.inList

\* C26: RoundTo calls that run at the same time with different rounding
\* modes each return what the call returns when it runs alone; the two
\* package-level contexts are never modified, and a mode other than
\* RoundHalfUp is set on a private copy only.
C26_Isolated ==
  /\ contexts = PackageContexts
  /\ \A t \in Rounders :
       /\ (threads[t].pc = "quantize" /\ threads[t].mode # "RoundHalfUp")
            => /\ threads[t].ctx.ref = "private"
               /\ threads[t].ctx.private.Rounding = threads[t].mode
       /\ (threads[t].pc = "done" /\ threads[t].op = "RoundTo")
            => threads[t].val = RoundTo(threads[t].x, threads[t].digits, threads[t].mode).val

\* C26 witness: two calls that ran at the same time on 12.345 USD, to two
\* digits, one with RoundUp and one with RoundHalfUp, returned 12.35 and
\* 12.34.
C26_Witness ==
  /\ threads["t1"].pc = "done" /\ threads["t2"].pc = "done"
  /\ "t2" \in threads["t1"].overlap
  /\ threads["t1"].x = NewAmount(S_12_345, USD).val
  /\ threads["t2"].x = threads["t1"].x
  /\ threads["t1"].digits = 2 /\ threads["t2"].digits = 2
  /\ threads["t1"].mode = "RoundUp" /\ threads["t2"].mode = "RoundHalfDown"
  /\ Number(threads["t1"].val) = <<"1", "2", ".", "3", "5">>
  /\ Number(threads["t2"].val) = <<"1", "2", ".", "3", "4">>

\* A formatter as NewFormatter returned it, no field set by the caller.
Unconfigured(f) == f = NewFormatter(f.locale)

A_1245_988_EUR == NewAmount(S_1245_988, EUR).val

\* C22 as stated: the formatter NewFormatter returns has the sentinel as its
\* minimum and as its maximum number of fraction digits, RoundHalfUp, symbol
\* display, no accounting style, no plus sign and grouping; an unconfigured
\* formatter writes 1245.988 EUR with two fraction digits.
C22_AsStated ==
  /\ last.op = "NewFormatter"
       => /\ last.out.ret.MinDigits = DefaultDigits
          /\ last.out.ret.MaxDigits = DefaultDigits
          /\ last.out.ret.RoundingMode = "RoundHalfUp"
          /\ last.out.ret.CurrencyDisplay = "DisplaySymbol"
          /\ ~last.out.ret.AccountingStyle
          /\ ~last.out.ret.AddPlusSign
          /\ ~last.out.ret.NoGrouping
  /\ (/\ last.op = "Format"
      /\ Unconfigured(last.args.opts)
      /\ last.args.opts.locale = NewLocale(ID_en)
      /\ last.recv = A_1245_988_EUR)
       => last.out.ret = <<EuroSign, "1", ",", "2", "4", "5", ".", "9", "9">>

\* C22, amended: the formatter NewFormatter returns has the sentinel as its
\* minimum number of fraction digits and 6 as its maximum, RoundHalfUp, symbol
\* display, no accounting style, no plus sign and grouping; an unconfigured
\* formatter for locale en writes 1245.988 EUR with its three fraction digits.
C22_Defaults ==
  /\ last.op = "NewFormatter"
       => /\ last.out.ret.MinDigits = DefaultDigits
          /\ last.out.ret.MaxDigits = 6
          /\ last.out.ret.RoundingMode = "RoundHalfUp"
          /\ last.out.ret.CurrencyDisplay = "DisplaySymbol"
          /\ ~last.out.ret.AccountingStyle
          /\ ~last.out.ret.AddPlusSign
          /\ ~last.out.ret.NoGrouping
  /\ (/\ last.op = "Format"
      /\ Unconfigured(last.args.opts)
      /\ last.args.opts.locale = NewLocale(ID_en)
      /\ last.recv = A_1245_988_EUR)
       => last.out.ret = <<EuroSign, "1", ",", "2", "4", "5", ".", "9", "8", "8">>

\* C22 witness: an unconfigured formatter for locale en has formatted
\* 1245.988 EUR.
C22_Witness ==
  /\ last.op = "Format"
  /\ Unconfigured(last.args.opts)
  /\ last.args.opts.locale = NewLocale(ID_en)
  /\ last.recv = A_1245_988_EUR
  /\ Len(last.out.ret) = 10

\* The number of fraction digits of an amount's number.
FractionDigitsOf(x) == IF x.number.Exponent < 0 THEN -x.number.Exponent ELSE 0

\* The maximum number of fraction digits f formats an amount of the currency
\* with, the sentinel resolved.
MaxDigitsFor(f, currencyCode) ==
  IF f.MaxDigits = DefaultDigits THEN GetDigits(currencyCode).digits ELSE f.MaxDigits

\* C21: for every formatter f and every amount x of a registered currency
\* whose fraction digits do not exceed f's max digits,
\* f.Parse(f.Format(x), x.CurrencyCode()) succeeds and returns an amount
\* with x's currency code and a number numerically equal to x's.
C21_AsStated ==
  (/\ last.op = "Parse"
   /\ last.args.code = last.recv.currencyCode
   /\ Registered(last.recv.currencyCode)
   /\ FractionDigitsOf(last.recv) <= MaxDigitsFor(last.args.opts, last.recv.currencyCode)
   /\ last.args.data = Format(last.args.opts, last.recv))
    => /\ last.out.err = NilError
       /\ last.out.val.currencyCode = last.recv.currencyCode
       /\ DecCmp(last.out.val.number, last.recv.number) = 0

\* The format of the first identifier in the locale's parent chain that has
\* a table entry, the format of "en" when the chain ends without one.
RECURSIVE FirstFormatInChain(_)
FirstFormatInChain(locale) ==
  IF String(locale) \in DOMAIN currencyFormats THEN currencyFormats[String(locale)]
  ELSE IF IsEmpty(locale) \/ IsEmpty(GetParent(locale)) THEN currencyFormats[ID_en]
  ELSE FirstFormatInChain(GetParent(locale))

\* C27: NewFormatter gives every Locale the format of the first identifier
\* in its parent chain that has a table entry, and the format of "en" when
\* the chain is exhausted; the format is never empty, so Format never works
\* with an empty pattern.
C27_AsStated ==
  /\ last.op = "NewFormatter"
       => /\ last.out.ret.format = FirstFormatInChain(last.out.ret.locale)
          /\ last.out.ret.format.standardPattern # <<>>
  /\ last.op = "Format" => getPattern(last.args.opts, last.recv) # <<>>

\* The minimum number of fraction digits f formats an amount of the currency
\* with, the sentinel resolved.
MinDigitsFor(f, currencyCode) ==
  IF f.MinDigits = DefaultDigits THEN GetDigits(currencyCode).digits ELSE f.MinDigits

\* The digits at the start of s.
RECURSIVE LeadingDigits(_)
LeadingDigits(s) ==
  IF s # <<>> /\ IsDigitChar(s[1]) THEN <<s[1]>> \o LeadingDigits(Tail(s)) ELSE <<>>

\* The digits that follow the first decimal separator sep of the formatted
\* string s, none when the separator does not occur.
RECURSIVE FractionOf(_, _)
FractionOf(s, sep) ==
  IF Len(s) < Len(sep) THEN <<>>
  ELSE IF SubSeq(s, 1, Len(sep)) = sep THEN LeadingDigits(SubSeq(s, Len(sep) + 1, Len(s)))
  ELSE FractionOf(Tail(s), sep)

\* The fraction digits of the absolute value of x rounded half up to n
\* digits: exactly n digits.
RoundedFraction(x, n) ==
  LET coeff == DigitString(RoundTo(x, n, "RoundHalfUp").val.number.Coeff)
      padded == [i \in 1..(n + 1 - Len(coeff)) |-> "0"] \o coeff
  IN SubSeq(padded, Len(padded) - n + 1, Len(padded))

\* The fraction digits of the string s that f wrote for the amount x are the
\* ones the claim gives.
FractionAsStated(f, x, s) ==
  LET min == MinDigitsFor(f, x.currencyCode)
      max == MaxDigitsFor(f, x.currencyCode)
      sep == f.format.decimalSeparator
      fraction == FractionOf(s, sep)
      digits == RoundedFraction(x, max)
      kept == TrimRightZeros(digits)
  IN /\ Len(fraction) <= max
     /\ Len(fraction) >= (IF min < max THEN min ELSE max)
     /\ min >= max => fraction = digits
     /\ min < max => fraction = (IF Len(kept) >= min THEN kept ELSE SubSeq(digits, 1, min))
     /\ Contains(s, sep) => fraction # <<>>

\* C28: the numeral Format writes has at most max and at least min(min, max)
\* fraction digits: exactly max digits of the rounded amount when
\* min >= max, and otherwise those digits without the trailing zeros beyond
\* min; the decimal separator is written only before a fraction digit.
C28_AsStated ==
  (/\ last.op = "Format"
   /\ Registered(last.recv.currencyCode)
   /\ last.args.opts.format.numberingSystem = "latn"
   /\ last.args.opts.format.decimalSeparator # <<>>)
    => FractionAsStated(last.args.opts, last.recv, last.out.ret)

\* The integer digits formatNumber hands to groupMajorDigits when f formats
\* the amount x.
MajorDigitsOf(f, x) ==
  LET positive == IF IsNegative(x) THEN Mul(x, S_Neg1).val ELSE x
      rounded == RoundTo(positive, MaxDigitsFor(f, x.currencyCode), f.RoundingMode).val
  IN SplitBy(Number(rounded), ".")[1]

\* The groups one after the other, without separators.
RECURSIVE Ungrouped(_)
Ungrouped(groups) ==
  IF groups = <<>> THEN <<>> ELSE groups[1] \o Ungrouped(Tail(groups))

\* grouped is the grouping of majorDigits that the claim gives for f.
GroupingAsStated(f, majorDigits, grouped) ==
  LET primarySize == f.format.primaryGroupingSize
      secondarySize == f.format.secondaryGroupingSize
  IN IF \/ f.NoGrouping
        \/ primarySize = 0
        \/ secondarySize = 0
        \/ Len(majorDigits) < f.format.minGroupingDigits + primarySize
     THEN grouped = majorDigits
     ELSE LET groups == SplitBy(grouped, f.format.groupingSeparator[1])
              n == Len(groups)
          IN /\ Len(f.format.groupingSeparator) = 1
             /\ Ungrouped(groups) = majorDigits
             /\ Len(groups[n]) = primarySize
             /\ \A i \in 2..(n - 1) : Len(groups[i]) = secondarySize
             /\ n > 1 => Len(groups[1]) \in 1..secondarySize

C29_WitnessUngrouped ==
  /\ last.op = "Format"
  /\ last.args.opts.locale = NewLocale(ID_es)
  /\ ~last.args.opts.NoGrouping
  /\ last.recv = NewAmount(S_1234_59, USD).val
  /\ Contains(last.out.ret, <<"1", "2", "3", "4", ",">>)

====
